---------------------------- MODULE Spec2Model ----------------------------
(***************************************************************************)
(* Decision core of the Cardano EMA-band trading bot.                      *)
(*                                                                         *)
(* Three programs of the repository share the strategy state and are       *)
(* modelled side by side; the variable  prog  says which one is running:   *)
(*   "twoway"    the live two-way bot        (src/src/bot-twoway.ts)       *)
(*   "backtest"  the position-tracking replay (src/unnamed/part_006)       *)
(*   "bot"       the modular live bot        (src/src/bot.ts + executor)   *)
(* Further values of  prog  name a function that is modelled on its own:   *)
(*   "waitForTxConfirm", "waitForConfirm"   the confirmation waits         *)
(*   "signal"                               the raw band signal            *)
(*                                                                         *)
(* Number representation (the source uses IEEE doubles):                   *)
(*   amounts  are integers in 1/100 of a human unit  (500 = 5.00)          *)
(*   prices   are integers in 1/10 of a B-per-A unit (100 = 10.0)          *)
(*   band bounds are carried multiplied by 10000 (no division is lost)     *)
(*   fee percentages are integers in 1/100 of a percent (20 = 0.20 %)      *)
(*   time is an integer number of abstract milliseconds                    *)
(* A bps quantity is only ever compared with an integer threshold, so the  *)
(* floor taken by \div does not change any comparison.                     *)
(***************************************************************************)
EXTENDS Integers, Sequences, FiniteSets, TLC

VARIABLES
    prog,            \* which program this behaviour runs
    cfg,             \* the environment configuration, fixed at start
    clock,           \* wall clock (live) or series time of the next point
    center,          \* EMA center, NaN until seeded
    posMode,         \* "NONE" | "LONG_A" | "LONG_B"
    entryMid,
    peakMid,
    troughMid,
    lastTradeAt,
    nextDecisionAt,
    invA,            \* backtest inventory of A
    invB,            \* backtest inventory of B
    coolingUntil,    \* bot.ts cooldown deadline
    nBuilt,          \* build-tx requests sent
    nSubmitted,      \* finalize-and-submit-tx requests accepted
    lastSubmitAt,    \* time of the latest submission, None before the first
    nFills,          \* rows appended to the fill log
    lastEvalAt,      \* start time of the latest tick that passed the cadence gate
    tick,            \* what the latest tick did
    alive,           \* the process is running (its loop has not ended)
    centerFile       \* the center stored in CENTER_FILE, None when there is none

vars == << prog, cfg, clock, center, posMode, entryMid, peakMid, troughMid,
           lastTradeAt, nextDecisionAt, invA, invB, coolingUntil,
           nBuilt, nSubmitted, lastSubmitAt, nFills, lastEvalAt, tick,
           alive, centerFile >>

(***************************************************************************)
(* Bounds of the exploration.                                              *)
(***************************************************************************)
MaxTime == 13
MaxLat == 1

NaN == 0 - 1
None == 0 - 1

(***************************************************************************)
(* Program constants.  Each is read from the environment with a default;   *)
(* the values are the defaults in the scaled units described above, except *)
(* COOLDOWN_MS (abstract milliseconds) and BAND_ALPHA (1/2, so that the    *)
(* center moves visibly on the coarse price grid).                         *)
(***************************************************************************)
AMOUNT_A_DEC == 1000
AMOUNT_B_DEC == 10000
FEE_CAP_PCT == 20
BAND_BPS == 50
EDGE_BPS == 5
COOLDOWN_MS == 2
MAX_PCT_A == 15
MAX_PCT_B == 15
MIN_TRADE_A_DEC == 500
MIN_TRADE_B_DEC == 5000
MIN_CYCLE_PNL_BPS == 0
EST_CYCLE_FEES_BPS == 60
feeBufAda == 200
\* BAND_ALPHA is carried as a numerator over AlphaDen; AlphaNum / AlphaDen is
\* the value the runs use unless they say otherwise
AlphaNum == 1
AlphaDen == 2

Max(a, b) == IF a >= b THEN a ELSE b
Min(a, b) == IF a <= b THEN a ELSE b

(***************************************************************************)
(* Pure helpers of bot-twoway.ts.                                          *)
(***************************************************************************)
\* bounds(center, bps): both bounds multiplied by 10000
bounds(c, bps) == [ lower |-> c * (10000 - bps), upper |-> c * (10000 + bps) ]

\* bpsOver(x, y) = ((x - y) / y) * 10000, floored
bpsOver(x, y) == ((x - y) * 10000) \div y

clamp(n, lo, hi) == Max(lo, Min(hi, n))

\* fmt(n, dp) = n.toFixed(dp): round half up to dp decimals; amounts carry
\* two decimals, so dp >= 2 keeps the value
fmt(n, dp) ==
    IF dp >= 2 THEN n
    ELSE IF dp = 1 THEN ((n + 5) \div 10) * 10
    ELSE ((n + 50) \div 100) * 100

\* deriveMid: average of the A->B price and the inverted B->A price
deriveMid(quoteAtoB, quoteBtoA, amtA, amtB) ==
    (10 * (quoteAtoB * quoteBtoA + amtA * amtB)) \div (2 * amtA * quoteBtoA)

\* alpha * mid + (1 - alpha) * center, alpha given as a numerator over AlphaDen
emaOf(alpha, c, mid) == (alpha * mid + (AlphaDen - alpha) * c) \div AlphaDen

\* EMA step: BAND_ALPHA * mid + (1 - BAND_ALPHA) * center
emaStep(c, mid) == emaOf(cfg.BAND_ALPHA, c, mid)

\* faulty variant: the edge is taken as the largest excess that still trades
bandSignalEdgeAsCap(mid, c, bandBps, edgeBps) ==
    LET b == bounds(c, bandBps)
        m == mid * 10000
    IN  IF m > b.upper /\ bpsOver(m, b.upper) <= edgeBps THEN "SELL_A"
        ELSE IF m < b.lower /\ bpsOver(b.lower, m) <= edgeBps THEN "SELL_B"
        ELSE "HOLD"

\* raw band signal (step 4 of the loop) for a band half-width and an edge
bandSignal(mid, c, bandBps, edgeBps) ==
    LET b == bounds(c, bandBps)
        m == mid * 10000
    IN  IF m > b.upper /\ bpsOver(m, b.upper) >= edgeBps THEN "SELL_A"
        ELSE IF m < b.lower /\ bpsOver(b.lower, m) >= edgeBps THEN "SELL_B"
        ELSE "HOLD"

\* faulty variant: the two sides of the signal are exchanged
bandActionSwapped(mid, c) ==
    LET s == bandSignal(mid, c, BAND_BPS, EDGE_BPS)
    IN  IF s = "SELL_A" THEN "SELL_B" ELSE IF s = "SELL_B" THEN "SELL_A" ELSE "HOLD"

\* the signal of a tick: BAND_BPS and EDGE_BPS of the environment
bandAction(mid, c) == bandSignal(mid, c, BAND_BPS, EDGE_BPS)

\* alignNextDecision: start of the bucket after the one holding t
alignNextDecision(t, every, old) ==
    IF every <= 0 THEN old ELSE ((t \div every) + 1) * every

\* faulty variant: the cadence gate lets every tick through
cadenceNeverSkips(every, now, nda) == FALSE

\* "Decision cadence gate - only act when the window opens"
cadenceSkips(every, now, nda) == every > 0 /\ now < nda

(***************************************************************************)
(* Position memory.  A position is the record of the four module-level     *)
(* variables posMode, entryMid, peakMid, troughMid.                        *)
(***************************************************************************)
Pos == [ mode |-> posMode, entry |-> entryMid, peak |-> peakMid, trough |-> troughMid ]

favorableMoveBps(p, midNow) ==
    IF p.mode = "LONG_B" THEN ((midNow - p.entry) * 10000) \div p.entry
    ELSE IF p.mode = "LONG_A" THEN ((p.entry - midNow) * 10000) \div p.entry
    ELSE 0

trailDrawdownBps(p, midNow) ==
    IF p.mode = "LONG_B" /\ p.peak > 0 THEN ((p.peak - midNow) * 10000) \div p.peak
    ELSE IF p.mode = "LONG_A" /\ p.trough > 0 THEN ((midNow - p.trough) * 10000) \div p.trough
    ELSE 0

hardStopFromEntryBps(p, midNow) ==
    IF p.mode = "LONG_B" THEN ((p.entry - midNow) * 10000) \div p.entry
    ELSE IF p.mode = "LONG_A" THEN ((midNow - p.entry) * 10000) \div p.entry
    ELSE 0

openPos(newMode, midNow) ==
    [ mode |-> newMode, entry |-> midNow, peak |-> midNow, trough |-> midNow ]

closePos == [ mode |-> "NONE", entry |-> 0, peak |-> 0, trough |-> 0 ]

\* faulty variant: the extremes are left as they were
extremesKept(p, mid) == p

\* faulty variant: the peak follows the lower and the trough the higher mid
extremesSwapped(p, mid) ==
    IF p.mode # "NONE"
    THEN [ p EXCEPT !.peak = Min(IF p.peak # 0 THEN p.peak ELSE mid, mid),
                    !.trough = Max(IF p.trough # 0 THEN p.trough ELSE mid, mid) ]
    ELSE p

\* "Update trailing extremes for open position"
updateExtremes(p, mid) ==
    IF p.mode # "NONE"
    THEN [ p EXCEPT !.peak = Max(IF p.peak # 0 THEN p.peak ELSE mid, mid),
                    !.trough = Min(IF p.trough # 0 THEN p.trough ELSE mid, mid) ]
    ELSE p

\* forced close via trailing / hard stop
forcedCloseOf(p, mid, trailStop, hardStop) ==
    IF p.mode = "NONE" THEN "NONE"
    ELSE LET tdBps == IF trailStop > 0 THEN trailDrawdownBps(p, mid) ELSE 0 - 1
             hsBps == IF hardStop > 0 THEN hardStopFromEntryBps(p, mid) ELSE 0 - 1
         IN  IF (trailStop > 0 /\ tdBps >= trailStop) \/ (hardStop > 0 /\ hsBps >= hardStop)
             THEN (IF p.mode = "LONG_B" THEN "SELL_B" ELSE "SELL_A")
             ELSE "NONE"

\* faulty variant: the single-position rule is missing
samesideHoldMissing(p, planned) == planned

\* single-position policy: never add to the open side
samesideHold(p, planned) ==
    IF p.mode = "LONG_B" /\ planned = "SELL_A" THEN "HOLD"
    ELSE IF p.mode = "LONG_A" /\ planned = "SELL_B" THEN "HOLD"
    ELSE planned

\* faulty variant: the cycle profit filter is missing
cycleFilterMissing(p, planned, forced, mid, useFilter) == planned

\* cycle profit filter on a closing trade
cycleFilter(p, planned, forced, mid, useFilter) ==
    IF useFilter /\ p.mode # "NONE"
       /\ ((p.mode = "LONG_B" /\ planned = "SELL_B") \/ (p.mode = "LONG_A" /\ planned = "SELL_A"))
       /\ favorableMoveBps(p, mid) < MIN_CYCLE_PNL_BPS + EST_CYCLE_FEES_BPS
       /\ forced = "NONE"
    THEN "HOLD"
    ELSE planned

\* faulty variant: a closing fill leaves no position open
positionClosedOnly(p, side, mid) ==
    IF p.mode = (IF side = "SELL_A" THEN "LONG_A" ELSE "LONG_B") THEN closePos
    ELSE IF p.mode = "NONE" THEN openPos(IF side = "SELL_A" THEN "LONG_B" ELSE "LONG_A", mid)
    ELSE p

\* "Position updates" after a fill of the given side
positionAfterFill(p, side, mid) ==
    LET closing == IF side = "SELL_A" THEN "LONG_A" ELSE "LONG_B"
        opening == IF side = "SELL_A" THEN "LONG_B" ELSE "LONG_A"
        p1 == IF p.mode = closing THEN closePos ELSE p
    IN  IF p1.mode = "NONE" THEN openPos(opening, mid) ELSE p1


(***************************************************************************)
(* Dynamic sizing of the live two-way bot (computeDynamicTradeSizes).      *)
(* balA, balB are the wallet balances read for this tick.                  *)
(***************************************************************************)
\* faulty variant: the spendable amount is not floored at zero
maxSpendUnfloored(bal, isAda, reserveAda, feeBuf) ==
    IF isAda THEN bal - reserveAda - feeBuf ELSE bal

\* maxSpendA: the balance of A less the reserve and the fee buffer when A is
\* ADA, the whole balance otherwise
maxSpend(bal, isAda, reserveAda, feeBuf) ==
    IF isAda THEN Max(0, bal - reserveAda - feeBuf) ELSE bal

computeDynamicTradeSizes(balA, balB, unitA, reserveAda) ==
    LET maxSpendA == maxSpend(balA, unitA = "lovelace", reserveAda, feeBufAda)
        dynA == (MAX_PCT_A * maxSpendA) \div 100
        dynB == (MAX_PCT_B * balB) \div 100
        tradeA_num == clamp(dynA, MIN_TRADE_A_DEC, AMOUNT_A_DEC)
        tradeB_num == clamp(dynB, MIN_TRADE_B_DEC, AMOUNT_B_DEC)
    IN  [ tradeA_num |-> tradeA_num, tradeB_num |-> tradeB_num,
          tradeA_str |-> fmt(tradeA_num, 6), tradeB_str |-> fmt(tradeB_num, 6) ]

\* faulty variant: the fee cap is not enforced
estimateNeverThrows(feePct) == FALSE

\* estimate(): throws when the quoted aggregator fee exceeds FEE_CAP_PCT
estimateThrows(feePct) == feePct > FEE_CAP_PCT

\* faulty variant: the cooldown is never active
cooldownRemainNone(tc, lta) == 0

\* step 5: time still to wait at clock reading tc after a trade at lta
cooldownRemain(tc, lta) == COOLDOWN_MS - (tc - lta)

\* faulty variant: the DRY_RUN switch is ignored
dryRunIgnored(dry) == FALSE

\* the DRY_RUN switch in front of executeSwap
dryRunSkips(dry) == dry

(***************************************************************************)
(* Inputs of one live tick.                                                *)
(***************************************************************************)
\* the two quotes at the cap amounts: min_amount_out and fee of each
CapsQuotes ==
    [ minOutAB : {9600, 10000, 10400}, minOutBA : {1000}, feeAB : {10}, feeBA : {10} ]
    \cup { [ minOutAB |-> 10000, minOutBA |-> 1000, feeAB |-> 10, feeBA |-> 50 ] }

\* the quote at the dynamic amount: the output follows the price of the
\* cap-sized quote of the same direction, the fee is the aggregator's
reQuoteOut(q, planned, amt) ==
    IF planned = "SELL_A" THEN (amt * q.minOutAB) \div AMOUNT_A_DEC
    ELSE (amt * q.minOutBA) \div AMOUNT_B_DEC

ReFees == {10, 50}

\* wallet balances <<A, B>> read in a tick (the reads of one tick agree)
Wallets == { <<0, 0>>, <<300, 5300>>, <<800, 40000>>, <<10000, 100000>> }
\* a balance request answers or fails
WalletReads == {"ok", "failed"}
PollDelay == {1, 2}
Latency == 0 .. MaxLat
\* executeSwap and the bookkeeping behind it: everything succeeds, build-tx
\* fails, finalize-and-submit-tx fails, or the submission succeeds and a later
\* statement (humanMinOut) throws
ExecOutcomes == {"ok", "build_failed", "submit_failed", "post_failed"}

BaseConfig ==
    [ DRY_RUN |-> FALSE, DECISION_EVERY_MS |-> 0, unitA |-> "lovelace", unitB |-> "token",
      MIN_NOTIONAL_OUT |-> 800, RESERVE_ADA_DEC |-> 500, USE_CYCLE_FILTER |-> TRUE,
      TRAIL_STOP_BPS |-> 150, HARD_STOP_BPS |-> 100, BAND_CENTER |-> 0,
      BAND_ALPHA |-> AlphaNum ]

Configs ==
    { [ BaseConfig EXCEPT !.DECISION_EVERY_MS = every ] : every \in {0, 3} }
    \cup { [ BaseConfig EXCEPT !.DRY_RUN = TRUE ],
           [ BaseConfig EXCEPT !.MIN_NOTIONAL_OUT = 10200 ],
           [ BaseConfig EXCEPT !.unitA = "token" ],
           [ BaseConfig EXCEPT !.unitA = "token", !.unitB = "lovelace" ],
           [ BaseConfig EXCEPT !.TRAIL_STOP_BPS = 0, !.HARD_STOP_BPS = 0 ] }

NoTick == [ path |-> "init", forced |-> "NONE", planned |-> "HOLD",
            amountIn |-> 0, balIn |-> 0, minOut |-> 0, mid |-> 0,
            action |-> "HOLD", fee |-> 0, wallet |-> "none" ]

\* the paths of a tick that end in the catch block of the loop
tickThrows(path) ==
    path \in {"err_quote", "err_balance", "err_fee", "err_exec", "err_post"}

\* faulty variant: an exception thrown in a tick ends the loop
loopStopsOnThrow(path) == ~tickThrows(path)

\* while (true) { try { ... } catch { log; sleep } }: every path of the body,
\* thrown or not, ends in a sleep inside the loop
loopContinues(path) == TRUE

\* saveCenter in step 3: the EMA update is written, the seeding is not, and a
\* tick that threw at its quotes never reaches step 3
twowaySaved(path, c) ==
    IF path = "err_quote" \/ center = NaN THEN centerFile ELSE c

(***************************************************************************)
(* The live two-way bot: one iteration of the while(true) loop of main().  *)
(***************************************************************************)
TwowayEnd(t, c, p, lta, nda, ck, nb, ns, lsa, nf, lea) ==
    /\ tick' = t
    /\ center' = c
    /\ posMode' = p.mode
    /\ entryMid' = p.entry
    /\ peakMid' = p.peak
    /\ troughMid' = p.trough
    /\ lastTradeAt' = lta
    /\ nextDecisionAt' = nda
    /\ clock' = ck
    /\ nBuilt' = nb
    /\ nSubmitted' = ns
    /\ lastSubmitAt' = lsa
    /\ nFills' = nf
    /\ lastEvalAt' = lea
    /\ alive' = loopContinues(t.path)
    /\ centerFile' = twowaySaved(t.path, c)
    /\ UNCHANGED << prog, cfg, invA, invB, coolingUntil >>

\* faulty variant: every tick that ends without a trade re-aligns the window
TwowayNoTradeRealigns(t, c, p, nda, ck, lea) ==
    TwowayEnd(t, c, p, lastTradeAt, alignNextDecision(clock, cfg.DECISION_EVERY_MS, nda),
              ck, nBuilt, nSubmitted, lastSubmitAt, nFills, lea)

\* a tick that ends before any transaction: only center, extremes, the
\* cadence alignment and the clock can have moved
TwowayNoTrade(t, c, p, nda, ck, lea) ==
    TwowayEnd(t, c, p, lastTradeAt, nda, ck, nBuilt, nSubmitted, lastSubmitAt, nFills, lea)

\* balance guards in front of the re-estimate, per side; "ok" lets it pass
twowayBalanceGuard(planned, balA, balB, sizes) ==
    IF planned = "SELL_A"
    THEN IF cfg.unitA = "lovelace"
         THEN IF balA - sizes.tradeA_num < cfg.RESERVE_ADA_DEC + feeBufAda THEN "reserve_guard"
              ELSE IF balA < sizes.tradeA_num + feeBufAda THEN "not_enough_ada"
              ELSE "ok"
         ELSE IF balA <= 0 THEN "no_balance" ELSE "ok"
    ELSE IF cfg.unitB = "lovelace"
         THEN IF balB < sizes.tradeB_num + feeBufAda THEN "not_enough_ada" ELSE "ok"
         ELSE IF balB <= 0 THEN "no_balance" ELSE "ok"

\* steps 5-7: cooldown, sizing, guards, re-estimate, swap, bookkeeping
TwowayExecute(now, dt, q, mid, c1, p1, nda, t0, planned) ==
    \E lat \in Latency :
      LET tc == now + lat
          remain == cooldownRemain(tc, lastTradeAt)
      IN
      IF ~cfg.DRY_RUN /\ remain > 0
      THEN TwowayNoTrade([ t0 EXCEPT !.path = "cooldown" ], c1, p1, nda,
                         tc + Min(dt, remain), now)
      ELSE
        \E w \in Wallets, rd \in WalletReads :
          LET balA == w[1]
              balB == w[2]
              sizes == computeDynamicTradeSizes(balA, balB, cfg.unitA, cfg.RESERVE_ADA_DEC)
              amt == IF planned = "SELL_A" THEN sizes.tradeA_num ELSE sizes.tradeB_num
              bal == IF planned = "SELL_A" THEN balA ELSE balB
              t1 == [ t0 EXCEPT !.amountIn = amt, !.balIn = bal, !.wallet = "ok" ]
              guard == twowayBalanceGuard(planned, balA, balB, sizes)
          IN
          IF rd = "failed"
          THEN TwowayNoTrade([ t0 EXCEPT !.path = "err_balance", !.wallet = "failed" ],
                             c1, p1, nda, tc + dt, now)
          ELSE IF sizes.tradeA_num <= 0 /\ sizes.tradeB_num <= 0
          THEN TwowayNoTrade([ t1 EXCEPT !.path = "no_size" ], c1, p1, nda, tc + dt, now)
          ELSE IF guard # "ok"
          THEN TwowayNoTrade([ t1 EXCEPT !.path = guard ], c1, p1, nda, tc + dt, now)
          ELSE
            \E fee \in ReFees :
              LET t2 == [ t1 EXCEPT !.minOut = reQuoteOut(q, planned, amt), !.fee = fee ] IN
              IF estimateThrows(fee)
              THEN TwowayNoTrade([ t2 EXCEPT !.path = "err_fee" ], c1, p1, nda, tc + dt, now)
              ELSE IF dryRunSkips(cfg.DRY_RUN)
              THEN TwowayNoTrade([ t2 EXCEPT !.path = "dry_run" ], c1, p1, nda, tc + dt, now)
              ELSE
                \E ex \in ExecOutcomes :
                  IF ex = "build_failed"
                  THEN TwowayNoTrade([ t2 EXCEPT !.path = "err_exec" ], c1, p1, nda, tc + dt, now)
                  ELSE IF ex = "submit_failed"
                  THEN TwowayEnd([ t2 EXCEPT !.path = "err_exec" ], c1, p1, lastTradeAt, nda,
                                 tc + dt, nBuilt + 1, nSubmitted, lastSubmitAt, nFills, now)
                  ELSE IF ex = "post_failed"
                  THEN TwowayEnd([ t2 EXCEPT !.path = "err_post" ], c1, p1, lastTradeAt, nda,
                                 tc + dt, nBuilt + 1, nSubmitted + 1, tc, nFills, now)
                  ELSE TwowayEnd([ t2 EXCEPT !.path = "traded" ], c1,
                                 positionAfterFill(p1, planned, mid),
                                 tc,
                                 alignNextDecision(tc, cfg.DECISION_EVERY_MS, nda),
                                 tc + dt, nBuilt + 1, nSubmitted + 1, tc, nFills + 1, now)

\* step 3 of the loop: the first mid seeds the center, later mids move it
twowayCenter(c, mid) == IF c = NaN THEN mid ELSE emaStep(c, mid)

\* faulty variant: a raw band signal, when there is one, goes before the stop
twowayPlannedSignalFirst(p1, mid, c1) ==
    LET forced == forcedCloseOf(p1, mid, cfg.TRAIL_STOP_BPS, cfg.HARD_STOP_BPS)
        action == bandAction(mid, c1)
        planned0 == IF action # "HOLD" THEN action ELSE forced
    IN  [ forced |-> forced, action |-> action,
          planned |-> cycleFilter(p1, samesideHold(p1, IF planned0 = "NONE" THEN "HOLD"
                                                       ELSE planned0),
                                  forced, mid, cfg.USE_CYCLE_FILTER) ]

\* the decision of a tick that got its quotes and passed the cadence gate
twowayPlanned(p1, mid, c1) ==
    LET forced == forcedCloseOf(p1, mid, cfg.TRAIL_STOP_BPS, cfg.HARD_STOP_BPS)
        action == bandAction(mid, c1)
        planned0 == IF forced # "NONE" THEN forced ELSE action
    IN  [ forced |-> forced, action |-> action,
          planned |-> cycleFilter(p1, samesideHold(p1, planned0), forced, mid,
                                  cfg.USE_CYCLE_FILTER) ]

TwowayTick ==
    /\ prog = "twoway"
    /\ alive
    /\ clock <= MaxTime
    /\ \E q \in CapsQuotes, dt \in PollDelay :
         LET now == clock
             nda == IF cfg.DECISION_EVERY_MS > 0 /\ nextDecisionAt = 0
                    THEN alignNextDecision(now, cfg.DECISION_EVERY_MS, nextDecisionAt)
                    ELSE nextDecisionAt
         IN
         IF estimateThrows(q.feeAB) \/ estimateThrows(q.feeBA)
         THEN TwowayNoTrade([ NoTick EXCEPT !.path = "err_quote",
                                            !.fee = Max(q.feeAB, q.feeBA) ], center, Pos, nda,
                            now + dt, lastEvalAt)
         ELSE
           LET smallAB == cfg.MIN_NOTIONAL_OUT > 0 /\ q.minOutAB < cfg.MIN_NOTIONAL_OUT
               smallBA == cfg.MIN_NOTIONAL_OUT > 0 /\ q.minOutBA < cfg.MIN_NOTIONAL_OUT
               mid == deriveMid(q.minOutAB, q.minOutBA, AMOUNT_A_DEC, AMOUNT_B_DEC)
               c1 == twowayCenter(center, mid)
               p1 == updateExtremes(Pos, mid)
               d == twowayPlanned(p1, mid, c1)
               t0 == [ NoTick EXCEPT !.forced = d.forced, !.planned = d.planned, !.mid = mid,
                                     !.action = d.action, !.fee = Max(q.feeAB, q.feeBA) ]
           IN
           IF cadenceSkips(cfg.DECISION_EVERY_MS, now, nda)
           THEN TwowayNoTrade([ NoTick EXCEPT !.path = "cadence_skip", !.mid = mid ], c1, p1, nda,
                              now + dt, lastEvalAt)
           ELSE IF d.planned = "HOLD"
           THEN TwowayNoTrade([ t0 EXCEPT !.path = "hold" ], c1, p1, nda, now + dt, now)
           ELSE IF (d.planned = "SELL_A" /\ smallAB) \/ (d.planned = "SELL_B" /\ smallBA)
           THEN TwowayNoTrade([ t0 EXCEPT !.path = "notional_hold" ], c1, p1, nda,
                              now + dt, now)
           ELSE TwowayExecute(now, dt, q, mid, c1, p1, nda, t0, d.planned)

StartTimes == {10}

InitCommon ==
    /\ cfg \in Configs
    /\ posMode = "NONE"
    /\ entryMid = 0
    /\ peakMid = 0
    /\ troughMid = 0
    /\ lastTradeAt = 0
    /\ nextDecisionAt = 0
    /\ coolingUntil = 0
    /\ nBuilt = 0
    /\ nSubmitted = 0
    /\ lastSubmitAt = None
    /\ nFills = 0
    /\ lastEvalAt = None
    /\ tick = NoTick
    /\ alive = TRUE

\* main() up to the loop: center from BAND_CENTER / the center file, else NaN
Init ==
    /\ prog = "twoway"
    /\ InitCommon
    /\ clock \in StartTimes
    /\ center \in {NaN, 100}
    /\ centerFile = center
    /\ invA = 0
    /\ invB = 0

Next == TwowayTick

Spec == Init /\ [][Next]_vars

(***************************************************************************)
(* The life of the live two-way process: it is interrupted (SIGINT) and    *)
(* started again, with the center file as the only state that survives.    *)
(***************************************************************************)
\* centerGlobal is assigned in the same synchronous stretch as center (at
\* start-up and at the end of step 3), so the two agree whenever a signal
\* handler can run
centerGlobal == center

\* faulty variant: the handler writes nothing
interruptSavesNothing(cg, file) == file

\* the SIGINT handler: saveCenter(centerGlobal) when it is finite
interruptSaves(cg, file) == IF cg # NaN THEN cg ELSE file

\* the center main() starts with: BAND_CENTER when it is a positive number,
\* else the content of the center file, else NaN
startCenter(bandCenterEnv, file) ==
    IF bandCenterEnv > 0 THEN bandCenterEnv ELSE IF file # None THEN file ELSE NaN

\* SIGINT while the loop waits for its quotes or sleeps
InterruptAsleep ==
    /\ prog = "twoway"
    /\ alive
    /\ alive' = FALSE
    /\ centerFile' = interruptSaves(centerGlobal, centerFile)
    /\ tick' = [ NoTick EXCEPT !.path = "interrupted" ]
    /\ UNCHANGED << prog, cfg, clock, center, posMode, entryMid, peakMid, troughMid,
                    lastTradeAt, nextDecisionAt, invA, invB, coolingUntil,
                    nBuilt, nSubmitted, lastSubmitAt, nFills, lastEvalAt >>

\* SIGINT at the first await after step 3 of a tick: the center and the
\* extremes of this tick are already assigned
InterruptInTick ==
    /\ prog = "twoway"
    /\ alive
    /\ clock <= MaxTime
    /\ \E q \in CapsQuotes :
         LET mid == deriveMid(q.minOutAB, q.minOutBA, AMOUNT_A_DEC, AMOUNT_B_DEC)
             c1 == IF center = NaN THEN mid ELSE emaStep(center, mid)
             p1 == updateExtremes(Pos, mid)
         IN  /\ ~(estimateThrows(q.feeAB) \/ estimateThrows(q.feeBA))
             /\ center' = c1
             /\ peakMid' = p1.peak
             /\ troughMid' = p1.trough
             /\ centerFile' = interruptSaves(c1, twowaySaved("hold", c1))
             /\ tick' = [ NoTick EXCEPT !.path = "interrupted", !.mid = mid ]
    /\ alive' = FALSE
    /\ UNCHANGED << prog, cfg, clock, posMode, entryMid, lastTradeAt, nextDecisionAt,
                    invA, invB, coolingUntil, nBuilt, nSubmitted, lastSubmitAt, nFills,
                    lastEvalAt >>

\* the process is started again: main() up to the loop
Restart ==
    /\ prog = "twoway"
    /\ ~alive
    /\ alive' = TRUE
    /\ center' = startCenter(cfg.BAND_CENTER, centerFile)
    /\ posMode' = "NONE"
    /\ entryMid' = 0
    /\ peakMid' = 0
    /\ troughMid' = 0
    /\ lastTradeAt' = 0
    /\ nextDecisionAt' = 0
    /\ lastEvalAt' = None
    /\ tick' = [ NoTick EXCEPT !.path = "restart" ]
    /\ UNCHANGED << prog, cfg, clock, centerFile, invA, invB, coolingUntil,
                    nBuilt, nSubmitted, lastSubmitAt, nFills >>

RunConfigs == { [ BaseConfig EXCEPT !.BAND_CENTER = b ] : b \in {0, 98} }

InitRun ==
    /\ prog = "twoway"
    /\ cfg \in RunConfigs
    /\ posMode = "NONE"
    /\ entryMid = 0
    /\ peakMid = 0
    /\ troughMid = 0
    /\ lastTradeAt = 0
    /\ nextDecisionAt = 0
    /\ coolingUntil = 0
    /\ nBuilt = 0
    /\ nSubmitted = 0
    /\ lastSubmitAt = None
    /\ nFills = 0
    /\ lastEvalAt = None
    /\ tick = NoTick
    /\ alive = TRUE
    /\ clock \in StartTimes
    /\ centerFile \in {None, 100}
    /\ center = startCenter(cfg.BAND_CENTER, centerFile)
    /\ invA = 0
    /\ invB = 0

NextRun == TwowayTick \/ InterruptAsleep \/ InterruptInTick \/ Restart

SpecRun == InitRun /\ [][NextRun]_vars

(***************************************************************************)
(* The position-tracking backtest: one iteration of the loop over the      *)
(* price series.  clock is the time t of the series point being replayed.  *)
(***************************************************************************)
POOL_FEE_BPS == 30
EXTRA_AGG_FEE_BPS == 0
FEE_BUF_ADA == 200

applyFeesOut(amountOut, totalFeeBps) == (amountOut * (10000 - totalFeeBps)) \div 10000

\* faulty variant: the sizes are not capped by the inventory
sizesNotCappedByInventory(inA, inB, capA, capB, aIsAda, reserveAda) ==
    LET maxSpendA == maxSpend(inA, aIsAda, reserveAda, FEE_BUF_ADA)
        dynA == (MAX_PCT_A * maxSpendA) \div 100
        dynB == (MAX_PCT_B * inB) \div 100
    IN  [ sizeA |-> clamp(dynA, MIN_TRADE_A_DEC, capA),
          sizeB |-> clamp(dynB, MIN_TRADE_B_DEC, capB) ]

computeDynamicSizesFromInventory(inA, inB, capA, capB, aIsAda, reserveAda) ==
    LET maxSpendA == maxSpend(inA, aIsAda, reserveAda, FEE_BUF_ADA)
        dynA == (MAX_PCT_A * maxSpendA) \div 100
        dynB == (MAX_PCT_B * inB) \div 100
    IN  [ sizeA |-> Min(inA, clamp(dynA, MIN_TRADE_A_DEC, capA)),
          sizeB |-> Min(inB, clamp(dynB, MIN_TRADE_B_DEC, capB)) ]

\* faulty variant: both sides are converted by multiplying with the mid
fillRawOutSameRate(planned, size, mid) == (mid * size) \div 10

\* the raw output of a fill at the mid (B per A): mid * sizeA, sizeB / mid
fillRawOut(planned, size, mid) ==
    IF planned = "SELL_A" THEN (mid * size) \div 10 ELSE (size * 10) \div mid

\* the backtest's cooldown step, applied to the planned action
backtestCooldown(planned, t, lta, cooldownMs) ==
    IF planned # "HOLD" /\ cooldownMs > 0 /\ cooldownMs - (t - lta) > 0 THEN "HOLD"
    ELSE planned

Mids == {98, 100, 102}
StartInventories == { <<300, 0>>, <<800, 0>>, <<10000, 0>>, <<800, 100000>> }

BacktestBase == [ BT_COOLDOWN_MS |-> 0 ] @@ [ BaseConfig EXCEPT !.MIN_NOTIONAL_OUT = 400 ]

BacktestConfigs ==
    { [ BacktestBase EXCEPT !.DECISION_EVERY_MS = every ] : every \in {0, 3} }
    \cup { [ BacktestBase EXCEPT !.BT_COOLDOWN_MS = 2 ],
           [ BacktestBase EXCEPT !.unitA = "token" ],
           [ BacktestBase EXCEPT !.TRAIL_STOP_BPS = 0, !.HARD_STOP_BPS = 0 ] }

BacktestEnd(t, c, p, lta, nda, ck, ia, ib, nf, lea) ==
    /\ tick' = t
    /\ center' = c
    /\ posMode' = p.mode
    /\ entryMid' = p.entry
    /\ peakMid' = p.peak
    /\ troughMid' = p.trough
    /\ lastTradeAt' = lta
    /\ nextDecisionAt' = nda
    /\ clock' = ck
    /\ invA' = ia
    /\ invB' = ib
    /\ nFills' = nf
    /\ lastEvalAt' = lea
    /\ UNCHANGED << prog, cfg, coolingUntil, nBuilt, nSubmitted, lastSubmitAt,
                    alive, centerFile >>

\* "continue": the point is only marked to market
BacktestNoTrade(t, c, p, ck, lea) ==
    BacktestEnd(t, c, p, lastTradeAt, nextDecisionAt, ck, invA, invB, nFills, lea)

BacktestStep ==
    /\ prog = "backtest"
    /\ clock <= MaxTime
    /\ \E mid \in Mids, dt \in PollDelay :
         LET t == clock
             \* center starts as series[0].mid and the first iteration applies
             \* the EMA to that same mid, which leaves it at series[0].mid
             c1 == IF center = NaN THEN mid ELSE emaStep(center, mid)
             p1 == updateExtremes(Pos, mid)
             action == bandAction(mid, c1)
             forced == forcedCloseOf(p1, mid, cfg.TRAIL_STOP_BPS, cfg.HARD_STOP_BPS)
             planned0 == IF forced # "NONE" THEN forced ELSE action
             cooled == backtestCooldown(planned0, t, lastTradeAt, cfg.BT_COOLDOWN_MS)
             planned == cycleFilter(p1, samesideHold(p1, cooled), forced, mid,
                                    cfg.USE_CYCLE_FILTER)
             sizes == computeDynamicSizesFromInventory(invA, invB, AMOUNT_A_DEC, AMOUNT_B_DEC,
                                                       cfg.unitA = "lovelace",
                                                       cfg.RESERVE_ADA_DEC)
             size == IF planned = "SELL_A" THEN sizes.sizeA ELSE sizes.sizeB
             inv == IF planned = "SELL_A" THEN invA ELSE invB
             rawOut == fillRawOut(planned, size, mid)
             out == applyFeesOut(rawOut, POOL_FEE_BPS + EXTRA_AGG_FEE_BPS)
             t0 == [ NoTick EXCEPT !.forced = forced, !.planned = planned, !.mid = mid,
                                   !.action = action ]
             t1 == [ t0 EXCEPT !.amountIn = size, !.balIn = inv, !.minOut = rawOut ]
         IN
         IF cadenceSkips(cfg.DECISION_EVERY_MS, t, nextDecisionAt)
         THEN BacktestNoTrade([ NoTick EXCEPT !.path = "cadence_skip", !.mid = mid ],
                              c1, p1, t + dt, lastEvalAt)
         ELSE IF planned = "HOLD"
         THEN BacktestNoTrade([ t0 EXCEPT !.path = IF cooled # planned0 THEN "cooldown"
                                                   ELSE "hold" ], c1, p1, t + dt, t)
         ELSE IF size <= 0 \/ inv <= 0
         THEN BacktestNoTrade([ t1 EXCEPT !.path = "no_size" ], c1, p1, t + dt, t)
         ELSE IF cfg.MIN_NOTIONAL_OUT > 0 /\ rawOut < cfg.MIN_NOTIONAL_OUT
         THEN BacktestNoTrade([ t1 EXCEPT !.path = "notional_hold" ], c1, p1, t + dt, t)
         ELSE BacktestEnd([ t1 EXCEPT !.path = "traded" ], c1,
                          positionAfterFill(p1, planned, mid),
                          t,
                          alignNextDecision(t, cfg.DECISION_EVERY_MS, nextDecisionAt),
                          t + dt,
                          IF planned = "SELL_A" THEN invA - size ELSE invA + out,
                          IF planned = "SELL_A" THEN invB + out ELSE invB - size,
                          nFills + 1, t)

\* main() of the backtest up to the loop
InitBacktest ==
    /\ prog = "backtest"
    /\ alive = TRUE
    /\ centerFile = None
    /\ cfg \in BacktestConfigs
    /\ posMode = "NONE"
    /\ entryMid = 0
    /\ peakMid = 0
    /\ troughMid = 0
    /\ lastTradeAt = 0
    /\ coolingUntil = 0
    /\ nBuilt = 0
    /\ nSubmitted = 0
    /\ lastSubmitAt = None
    /\ nFills = 0
    /\ lastEvalAt = None
    /\ tick = NoTick
    /\ clock \in StartTimes
    /\ nextDecisionAt = alignNextDecision(clock, cfg.DECISION_EVERY_MS, 0)
    /\ center = NaN
    /\ \E inv \in StartInventories : invA = inv[1] /\ invB = inv[2]

NextBacktest == BacktestStep

SpecBacktest == InitBacktest /\ [][NextBacktest]_vars

(***************************************************************************)
(* The modular live bot: one iteration of the loop of runBot(), with       *)
(* simulateOrExecute() and the sizing helpers of risk.ts.  center holds    *)
(* band.center (NaN while band is null).                                   *)
(***************************************************************************)
\* Number.POSITIVE_INFINITY: the balance assumed when there is no address
Infinity == 100000000

\* strategy/emaBand.ts
nextEma(prev, mid) == IF prev = NaN THEN mid ELSE emaStep(prev, mid)

shouldTrade(mid, c, edgeBps) ==
    [ buy |-> mid > c /\ bpsOver(mid, c) >= edgeBps,
      sell |-> mid < c /\ bpsOver(c, mid) >= edgeBps ]

\* "persist center periodically": band is replaced when the center moved by
\* more than 0.0001 of itself
persistBand(band, c) ==
    IF band = NaN \/ (IF c >= band THEN c - band ELSE band - c) * 10000 > c THEN c ELSE band

\* risk.ts
passesMinTrade(side, amountDec) ==
    amountDec >= (IF side = "BUY_B" THEN MIN_TRADE_A_DEC ELSE MIN_TRADE_B_DEC)

sizeWithCaps(side, balA, balB, wantAmountDec) ==
    IF side = "BUY_B"
    THEN Max(0, Min(wantAmountDec, (MAX_PCT_A * balA) \div 100))
    ELSE Max(0, Min(wantAmountDec, (MAX_PCT_B * balB) \div 100))

applyAdaReserve(amountA, adaBalance, reserveAda) ==
    IF reserveAda <= 0 THEN amountA
    ELSE Min(amountA, Max(0, adaBalance - reserveAda))

\* faulty variant: only the DRY_RUN switch keeps the executor from sending
simulateOnlyDryRun(c) == c.DRY_RUN

\* simulateOrExecute: "Dry-run or missing keys/address -> simulate only"
simulateOnly(c) == c.DRY_RUN \/ ~c.sender

BotOutcomes == {"ok", "quote_failed", "build_failed", "submit_failed", "no_tx_id"}

BotBase == [ sender |-> TRUE ] @@ BaseConfig

BotConfigs ==
    { [ BotBase EXCEPT !.DRY_RUN = dry, !.sender = snd ] : dry \in BOOLEAN, snd \in BOOLEAN }
    \cup { [ BotBase EXCEPT !.unitA = "token" ] }

BotEnd(t, c, cu, ck, nb, ns, lsa, nf) ==
    /\ tick' = t
    /\ center' = c
    /\ coolingUntil' = cu
    /\ clock' = ck
    /\ nBuilt' = nb
    /\ nSubmitted' = ns
    /\ lastSubmitAt' = lsa
    /\ nFills' = nf
    /\ alive' = loopContinues(t.path)
    /\ centerFile' = c
    /\ UNCHANGED << prog, cfg, posMode, entryMid, peakMid, troughMid, lastTradeAt,
                    nextDecisionAt, invA, invB, lastEvalAt >>

BotNoTrade(t, c, ck) ==
    BotEnd(t, c, coolingUntil, ck, nBuilt, nSubmitted, lastSubmitAt, nFills)

\* simulateOrExecute and the two statements after it in runBot; the
\* aggregator answers lat after the tick took its time stamp
BotExecute(now, dt, band1, t1) ==
    \E lat \in Latency, fee \in ReFees, ex \in BotOutcomes :
      LET ts == now + lat
          t2 == [ t1 EXCEPT !.fee = fee ]
      IN
      IF ex = "quote_failed"
      THEN BotNoTrade([ t1 EXCEPT !.path = "err_quote" ], band1, ts + dt)
      ELSE IF estimateThrows(fee)
      THEN BotNoTrade([ t2 EXCEPT !.path = "err_fee" ], band1, ts + dt)
      ELSE IF simulateOnly(cfg)
      THEN BotEnd([ t2 EXCEPT !.path = "dry_run" ], band1, now + COOLDOWN_MS, ts + dt,
                  nBuilt, nSubmitted, lastSubmitAt, nFills + 1)
      ELSE IF ex = "build_failed"
      THEN BotEnd([ t2 EXCEPT !.path = "err_exec" ], band1, coolingUntil, ts + dt,
                  nBuilt + 1, nSubmitted, lastSubmitAt, nFills)
      ELSE IF ex = "submit_failed"
      THEN BotEnd([ t2 EXCEPT !.path = "err_exec" ], band1, coolingUntil, ts + dt,
                  nBuilt + 1, nSubmitted, lastSubmitAt, nFills)
      ELSE IF ex = "no_tx_id"
      THEN BotEnd([ t2 EXCEPT !.path = "err_post" ], band1, coolingUntil, ts + dt,
                  nBuilt + 1, nSubmitted + 1, ts, nFills)
      ELSE BotEnd([ t2 EXCEPT !.path = "traded" ], band1, now + COOLDOWN_MS, ts + dt,
                  nBuilt + 1, nSubmitted + 1, ts, nFills + 1)

BotTick ==
    /\ prog = "bot"
    /\ alive
    /\ clock <= MaxTime
    /\ \E mid \in Mids \cup {NaN}, dt \in PollDelay, w0 \in Wallets, rd \in WalletReads :
         LET now == clock
             \* fetchWalletBalances answers zero balances when the request fails
             w == IF rd = "failed" THEN <<0, 0>> ELSE w0
             c == nextEma(center, mid)
             sig == shouldTrade(mid, c, EDGE_BPS)
             band1 == persistBand(center, c)
             adaBal == IF ~cfg.sender THEN 0
                       ELSE IF cfg.unitA = "lovelace" THEN w[1]
                       ELSE IF cfg.unitB = "lovelace" THEN w[2] ELSE 0
             aBal == IF cfg.sender THEN w[1] ELSE Infinity
             bBal == IF cfg.sender THEN w[2] ELSE Infinity
             sizedA == sizeWithCaps("BUY_B", aBal, bBal, AMOUNT_A_DEC)
             inA == IF cfg.unitA = "lovelace"
                    THEN applyAdaReserve(sizedA, adaBal, cfg.RESERVE_ADA_DEC) ELSE sizedA
             inB == sizeWithCaps("SELL_B", aBal, bBal, AMOUNT_B_DEC)
             side == IF sig.buy THEN "BUY_B" ELSE "SELL_B"
             amt == IF sig.buy THEN inA ELSE inB
             t0 == [ NoTick EXCEPT !.mid = mid, !.planned = side, !.action = side,
                                   !.amountIn = amt,
                                   !.balIn = IF sig.buy THEN aBal ELSE bBal,
                                   !.wallet = IF cfg.sender THEN rd ELSE "unlimited" ]
         IN
         IF mid = NaN
         THEN BotNoTrade([ NoTick EXCEPT !.path = "err_quote" ], center, now + dt)
         ELSE IF now < coolingUntil
         THEN BotNoTrade([ NoTick EXCEPT !.path = "cooldown", !.mid = mid ], band1, now + dt)
         ELSE IF ~sig.buy /\ ~sig.sell
         THEN BotNoTrade([ NoTick EXCEPT !.path = "hold", !.mid = mid ], band1, now + dt)
         ELSE IF ~(passesMinTrade(side, amt) /\ amt > 0)
         THEN BotNoTrade([ t0 EXCEPT !.path = "no_size" ], band1, now + dt)
         ELSE BotExecute(now, dt, band1, t0)

\* runBot() up to the loop: band from the center file, else null
InitBot ==
    /\ prog = "bot"
    /\ cfg \in BotConfigs
    /\ posMode = "NONE"
    /\ entryMid = 0
    /\ peakMid = 0
    /\ troughMid = 0
    /\ lastTradeAt = 0
    /\ nextDecisionAt = 0
    /\ coolingUntil = 0
    /\ nBuilt = 0
    /\ nSubmitted = 0
    /\ lastSubmitAt = None
    /\ nFills = 0
    /\ lastEvalAt = None
    /\ tick = NoTick
    /\ alive = TRUE
    /\ clock \in StartTimes
    /\ center \in {NaN, 100}
    /\ centerFile = center
    /\ invA = 0
    /\ invB = 0

NextBot == BotTick

SpecBot == InitBot /\ [][NextBot]_vars

(***************************************************************************)
(* Start-up of the two live programs: the configuration is read from the   *)
(* environment before the loop is entered.                                 *)
(***************************************************************************)
\* config.ts: BAND_ALPHA: z.coerce.number().min(0.0).max(1.0)
alphaInSchema(a) == 0 <= a /\ a <= AlphaDen

\* BAND_ALPHA values of the environment: -0.5, 0.5, 1.5
Alphas == {0 - 1, AlphaNum, 3}

ProcessUnchanged ==
    UNCHANGED << prog, cfg, clock, center, posMode, entryMid, peakMid, troughMid,
                 lastTradeAt, nextDecisionAt, invA, invB, coolingUntil,
                 nBuilt, nSubmitted, lastSubmitAt, nFills, lastEvalAt, centerFile >>

\* bot-twoway.ts: num(process.env.BAND_ALPHA, 0.10) takes any finite number
StartTwoway ==
    /\ prog = "twoway"
    /\ ~alive
    /\ tick.path = "init"
    /\ alive' = TRUE
    /\ tick' = [ NoTick EXCEPT !.path = "started" ]
    /\ ProcessUnchanged

\* bot.ts: loadConfig() parses the environment with the schema; a parse
\* error is thrown out of runBot() before the loop
StartBot ==
    /\ prog = "bot"
    /\ ~alive
    /\ tick.path = "init"
    /\ alive' = alphaInSchema(cfg.BAND_ALPHA)
    /\ tick' = [ NoTick EXCEPT !.path = IF alphaInSchema(cfg.BAND_ALPHA) THEN "started"
                                        ELSE "config_error" ]
    /\ ProcessUnchanged

InitStart ==
    /\ \/ prog = "twoway" /\ cfg \in { [ BaseConfig EXCEPT !.BAND_ALPHA = a ] : a \in Alphas }
       \/ prog = "bot" /\ cfg \in { [ BotBase EXCEPT !.BAND_ALPHA = a ] : a \in Alphas }
    /\ posMode = "NONE"
    /\ entryMid = 0
    /\ peakMid = 0
    /\ troughMid = 0
    /\ lastTradeAt = 0
    /\ nextDecisionAt = 0
    /\ coolingUntil = 0
    /\ nBuilt = 0
    /\ nSubmitted = 0
    /\ lastSubmitAt = None
    /\ nFills = 0
    /\ lastEvalAt = None
    /\ tick = NoTick
    /\ alive = FALSE
    /\ clock \in StartTimes
    /\ centerFile \in {None, 100}
    /\ center = centerFile
    /\ invA = 0
    /\ invB = 0

NextStart == StartTwoway \/ StartBot \/ TwowayTick \/ BotTick

SpecStart == InitStart /\ [][NextStart]_vars

\* both live programs
InitLive == Init \/ InitBot

NextLive == TwowayTick \/ BotTick

SpecLive == InitLive /\ [][NextLive]_vars

\* both live programs left to run in their default live configuration: the
\* event loop always resumes the loop body when its sleep timer fires
LoopStartTimes == {11}

InitLoop ==
    /\ \/ prog = "twoway" /\ cfg = BaseConfig
       \/ prog = "bot" /\ cfg = BotBase
    /\ posMode = "NONE"
    /\ entryMid = 0
    /\ peakMid = 0
    /\ troughMid = 0
    /\ lastTradeAt = 0
    /\ nextDecisionAt = 0
    /\ coolingUntil = 0
    /\ nBuilt = 0
    /\ nSubmitted = 0
    /\ lastSubmitAt = None
    /\ nFills = 0
    /\ lastEvalAt = None
    /\ tick = NoTick
    /\ alive = TRUE
    /\ clock \in LoopStartTimes
    /\ center \in {NaN, 100}
    /\ centerFile = center
    /\ invA = 0
    /\ invB = 0

SpecLoop == InitLoop /\ [][NextLive]_vars /\ WF_vars(NextLive)

(***************************************************************************)
(* The confirmation waits: waitForTxConfirm (clients/blockfrostConfirm.ts) *)
(* and waitForConfirm (bot-minswap.ts).  prog names the function, clock is *)
(* Date.now(), tick.path the position in the function and tick.start,      *)
(* tick.deadline its local constants.  Every request to Blockfrost comes   *)
(* back, with an answer or an error, after 0 .. MaxLat.                    *)
(***************************************************************************)
\* the pause of waitForConfirm between two polls (4000 ms)
CONFIRM_WAIT == 2

ConfirmTimeouts == {0, 3, 5}
ConfirmPolls == {0, 1, 2}

\* 200 with a hash, 200 without one, 404, any other failure
PollAnswers == {"found", "no_hash", "not_found", "error"}

\* faulty variant: a timer of 0 ms fires at once
sleepNoTime(ms) == 0

\* await new Promise(r => setTimeout(r, ms)): a timer below 1 ms is set to 1 ms
sleepTime(ms) == Max(1, ms)

ConfirmDone == tick.path \in {"confirmed", "gave_up", "timed_out"}

ConfirmUnchanged ==
    UNCHANGED << prog, cfg, center, posMode, entryMid, peakMid, troughMid,
                 lastTradeAt, nextDecisionAt, invA, invB, coolingUntil,
                 nBuilt, nSubmitted, lastSubmitAt, nFills, lastEvalAt, alive, centerFile >>

\* waitForTxConfirm: the loop condition; waitForConfirm: the test after the poll
ConfirmCheck ==
    /\ tick.path = "check"
    /\ tick' = [ tick EXCEPT !.path =
                   IF prog = "waitForTxConfirm"
                   THEN (IF clock < tick.deadline THEN "request" ELSE "gave_up")
                   ELSE (IF clock - tick.start > cfg.CONFIRM_TIMEOUT_MS THEN "timed_out"
                         ELSE "sleep") ]
    /\ clock' = clock
    /\ ConfirmUnchanged

\* axios.get(.../txs/{hash}) inside try / catch
ConfirmRequest ==
    /\ tick.path = "request"
    /\ \E lat \in Latency, ans \in PollAnswers :
         /\ clock' = clock + lat
         /\ tick' = [ tick EXCEPT
                        !.sawError = tick.sawError \/ ans \in {"not_found", "error"},
                        !.answer = ans,
                        !.path = IF prog = "waitForTxConfirm"
                                 THEN (IF ans = "found" THEN "confirmed" ELSE "sleep")
                                 ELSE (IF ans \in {"found", "no_hash"} THEN "confirmed"
                                       ELSE "check") ]
    /\ ConfirmUnchanged

ConfirmSleep ==
    /\ tick.path = "sleep"
    /\ clock' = clock + (IF prog = "waitForTxConfirm" THEN sleepTime(cfg.CONFIRM_POLL_MS)
                         ELSE sleepTime(CONFIRM_WAIT))
    /\ tick' = [ tick EXCEPT !.path = IF prog = "waitForTxConfirm" THEN "check"
                                      ELSE "request" ]
    /\ ConfirmUnchanged

InitConfirm ==
    /\ prog \in {"waitForTxConfirm", "waitForConfirm"}
    /\ cfg \in [ CONFIRM_TIMEOUT_MS : ConfirmTimeouts, CONFIRM_POLL_MS : ConfirmPolls ]
    /\ clock \in StartTimes
    /\ tick = [ path |-> IF prog = "waitForTxConfirm" THEN "check" ELSE "request",
                start |-> clock, deadline |-> clock + cfg.CONFIRM_TIMEOUT_MS,
                sawError |-> FALSE, answer |-> "none" ]
    /\ center = NaN
    /\ posMode = "NONE"
    /\ entryMid = 0
    /\ peakMid = 0
    /\ troughMid = 0
    /\ lastTradeAt = 0
    /\ nextDecisionAt = 0
    /\ invA = 0
    /\ invB = 0
    /\ coolingUntil = 0
    /\ nBuilt = 0
    /\ nSubmitted = 1
    /\ lastSubmitAt = clock
    /\ nFills = 0
    /\ lastEvalAt = None
    /\ alive = TRUE
    /\ centerFile = None

NextConfirm == ConfirmCheck \/ ConfirmRequest \/ ConfirmSleep

\* the event loop resumes the function after every await
SpecConfirm == InitConfirm /\ [][NextConfirm]_vars /\ WF_vars(NextConfirm)

(***************************************************************************)
(* The raw band signal as a function: the inputs are drawn at the start    *)
(* and one step evaluates the signal at two edge thresholds.               *)
(***************************************************************************)
SignalCenters == {1000}
SignalMids == 990 .. 1010
SignalBands == {0 - 50, 0, 50}
SignalEdges == {0, 5, 40, 100}

EvaluateSignal ==
    /\ prog = "signal"
    /\ tick.path = "input"
    /\ tick' = [ tick EXCEPT
                   !.path = "evaluated",
                   !.s1 = bandSignal(tick.mid, tick.center, tick.bandBps, tick.e1),
                   !.s2 = bandSignal(tick.mid, tick.center, tick.bandBps, tick.e2) ]
    /\ UNCHANGED << prog, cfg, clock, center, posMode, entryMid, peakMid, troughMid,
                    lastTradeAt, nextDecisionAt, invA, invB, coolingUntil,
                    nBuilt, nSubmitted, lastSubmitAt, nFills, lastEvalAt, alive, centerFile >>

InitSignal ==
    /\ prog = "signal"
    /\ cfg = BaseConfig
    /\ tick \in [ path : {"input"}, mid : SignalMids, center : SignalCenters,
                  bandBps : SignalBands, e1 : SignalEdges, e2 : SignalEdges,
                  s1 : {"none"}, s2 : {"none"} ]
    /\ clock = 0
    /\ center = NaN
    /\ posMode = "NONE"
    /\ entryMid = 0
    /\ peakMid = 0
    /\ troughMid = 0
    /\ lastTradeAt = 0
    /\ nextDecisionAt = 0
    /\ invA = 0
    /\ invB = 0
    /\ coolingUntil = 0
    /\ nBuilt = 0
    /\ nSubmitted = 0
    /\ lastSubmitAt = None
    /\ nFills = 0
    /\ lastEvalAt = None
    /\ alive = TRUE
    /\ centerFile = None

NextSignal == EvaluateSignal

SpecSignal == InitSignal /\ [][NextSignal]_vars

(***************************************************************************)
(* The center alone, at a fine resolution: step 3 of main() in             *)
(* bot-twoway.ts and the first statements of the loop of runBot() in       *)
(* bot.ts, fed with a mid per tick.  Here centers and mids are integers in *)
(* units of 0.00001 (1000000 = 10.0), so that the 0.0001 persistence       *)
(* threshold of bot.ts is 100 units; tick.center is the center the tick    *)
(* computed and used for its band, center is what the loop keeps for the   *)
(* next tick (center in bot-twoway.ts, band.center in bot.ts).             *)
(***************************************************************************)
CenterMids == {1000000, 1000064, 1000256}

CenterTwowayTick ==
    /\ prog = "twoway_center"
    /\ clock < MaxTime
    /\ \E mid \in CenterMids :
         LET c1 == twowayCenter(center, mid) IN
         /\ tick' = [ path |-> IF center = NaN THEN "seed" ELSE "ema",
                      mid |-> mid, center |-> c1 ]
         /\ center' = c1
         /\ centerFile' = twowaySaved("ema", c1)
    /\ clock' = clock + 1
    /\ UNCHANGED << prog, cfg, posMode, entryMid, peakMid, troughMid, lastTradeAt,
                    nextDecisionAt, invA, invB, coolingUntil, nBuilt, nSubmitted,
                    lastSubmitAt, nFills, lastEvalAt, alive >>

CenterBotTick ==
    /\ prog = "bot_center"
    /\ clock < MaxTime
    /\ \E mid \in CenterMids :
         LET c == nextEma(center, mid)
             band1 == persistBand(center, c)
         IN
         /\ tick' = [ path |-> IF band1 = center THEN "kept" ELSE "saved",
                      mid |-> mid, center |-> c ]
         /\ center' = band1
         /\ centerFile' = band1
    /\ clock' = clock + 1
    /\ UNCHANGED << prog, cfg, posMode, entryMid, peakMid, troughMid, lastTradeAt,
                    nextDecisionAt, invA, invB, coolingUntil, nBuilt, nSubmitted,
                    lastSubmitAt, nFills, lastEvalAt, alive >>

\* BAND_ALPHA 0.5 and 1
CenterAlphas == {AlphaNum, AlphaDen}

InitCenter ==
    /\ prog \in {"twoway_center", "bot_center"}
    /\ cfg \in { [ BotBase EXCEPT !.BAND_ALPHA = a ] : a \in CenterAlphas }
    /\ posMode = "NONE"
    /\ entryMid = 0
    /\ peakMid = 0
    /\ troughMid = 0
    /\ lastTradeAt = 0
    /\ nextDecisionAt = 0
    /\ coolingUntil = 0
    /\ nBuilt = 0
    /\ nSubmitted = 0
    /\ lastSubmitAt = None
    /\ nFills = 0
    /\ lastEvalAt = None
    /\ tick = [ path |-> "init", mid |-> 0, center |-> NaN ]
    /\ alive = TRUE
    /\ clock = 0
    /\ center \in {NaN, 1000000}
    /\ centerFile = center
    /\ invA = 0
    /\ invB = 0

NextCenter == CenterTwowayTick \/ CenterBotTick

SpecCenter == InitCenter /\ [][NextCenter]_vars

(***************************************************************************)
(* One fill of the backtests on its own: the arithmetic of a SELL_A or     *)
(* SELL_B branch of the loop (raw output at the mid, fees, PnL, the two    *)
(* inventories, the marked value) for an inventory, a size, a mid and a    *)
(* total fee.  The mids and sizes divide evenly, so the fixed-point        *)
(* quotients are the exact ones.                                           *)
(***************************************************************************)
\* pnlAda of a fill: what was received, priced at the mid, less what was given
fillPnlAda(planned, size, out, mid) ==
    IF planned = "SELL_A" THEN (out * 10) \div mid - size
    ELSE out - (size * 10) \div mid

\* invA + invB / mid
markedAda(ia, ib, mid) == ia + (ib * 10) \div mid

FillMids == {5, 10, 20}
FillSizes == {0, 1000, 2000}
FillFees == {0, POOL_FEE_BPS + EXTRA_AGG_FEE_BPS}
FillInventories == { <<10000, 0>>, <<9000, 2000>>, <<1000, 3000>> }

ExecuteFill ==
    /\ prog = "fill"
    /\ tick.path = "init"
    /\ LET planned == tick.planned
           mid == tick.mid
           size == tick.amountIn
           rawOut == fillRawOut(planned, size, mid)
           out == applyFeesOut(rawOut, tick.feeBps)
           inv == IF planned = "SELL_A" THEN invA ELSE invB
       IN
       IF size <= 0 \/ inv < size
       THEN /\ tick' = [ tick EXCEPT !.path = "no_size",
                                     !.before = markedAda(invA, invB, mid) ]
            /\ UNCHANGED << invA, invB, nFills >>
       ELSE /\ tick' = [ tick EXCEPT !.path = "traded", !.out = out,
                                     !.pnlAda = fillPnlAda(planned, size, out, mid),
                                     !.before = markedAda(invA, invB, mid) ]
            /\ invA' = (IF planned = "SELL_A" THEN invA - size ELSE invA + out)
            /\ invB' = (IF planned = "SELL_A" THEN invB + out ELSE invB - size)
            /\ nFills' = nFills + 1
    /\ UNCHANGED << prog, cfg, clock, center, posMode, entryMid, peakMid, troughMid,
                    lastTradeAt, nextDecisionAt, coolingUntil, nBuilt, nSubmitted,
                    lastSubmitAt, lastEvalAt, alive, centerFile >>

InitFill ==
    /\ prog = "fill"
    /\ cfg = BacktestBase
    /\ posMode = "NONE"
    /\ entryMid = 0
    /\ peakMid = 0
    /\ troughMid = 0
    /\ lastTradeAt = 0
    /\ nextDecisionAt = 0
    /\ coolingUntil = 0
    /\ nBuilt = 0
    /\ nSubmitted = 0
    /\ lastSubmitAt = None
    /\ nFills = 0
    /\ lastEvalAt = None
    /\ alive = TRUE
    /\ clock = 0
    /\ center = NaN
    /\ centerFile = None
    /\ \E inv \in FillInventories : invA = inv[1] /\ invB = inv[2]
    /\ \E planned \in {"SELL_A", "SELL_B"}, mid \in FillMids, size \in FillSizes,
          fee \in FillFees :
         tick = [ path |-> "init", planned |-> planned, mid |-> mid, amountIn |-> size,
                  feeBps |-> fee, out |-> 0, pnlAda |-> 0, before |-> 0 ]

NextFill == ExecuteFill

SpecFill == InitFill /\ [][NextFill]_vars

(***************************************************************************)
(* The parameter sweep: main() of backtest-sweep.ts calls runBacktest()    *)
(* once per combination over one series.  The locals of runBacktest        *)
(* (invA, invB, center, lastTradeAt, nextDecisionAt, the position, trades) *)
(* are the variables of the same names, nFills counts trades, clock is the *)
(* index of the next point of the series, cfg holds the parameters of the  *)
(* run in progress.  tick carries the series and the rows written so far.  *)
(* The combinations are taken in any order and may repeat.                 *)
(***************************************************************************)
START_A == 10000
START_B == 0

SweepSeries ==
    { << [ t |-> 10, mid |-> 100 ], [ t |-> 11, mid |-> 102 ],
         [ t |-> 12, mid |-> 98 ], [ t |-> 13, mid |-> 102 ] >>,
      << [ t |-> 10, mid |-> 98 ], [ t |-> 12, mid |-> 102 ],
         [ t |-> 13, mid |-> 100 ], [ t |-> 15, mid |-> 98 ] >> }

SweepCombos ==
    { BacktestBase,
      [ BacktestBase EXCEPT !.BT_COOLDOWN_MS = 2 ],
      [ BacktestBase EXCEPT !.DECISION_EVERY_MS = 3 ],
      [ BacktestBase EXCEPT !.BAND_ALPHA = AlphaDen, !.TRAIL_STOP_BPS = 0 ] }

\* how many runs of a sweep are followed
SweepRuns == 1..3

\* the locals of a run as a record
RunLocals ==
    [ invA |-> invA, invB |-> invB, center |-> center, lastTradeAt |-> lastTradeAt,
      nextDecisionAt |-> nextDecisionAt, pos |-> Pos, trades |-> nFills ]

\* faulty variant: the time of the last trade is kept from the run before
runStartKeepsLastTrade(prev, params, series) ==
    [ invA |-> START_A, invB |-> START_B, center |-> series[1].mid,
      lastTradeAt |-> prev.lastTradeAt,
      nextDecisionAt |-> alignNextDecision(series[1].t, params.DECISION_EVERY_MS, 0),
      pos |-> closePos, trades |-> 0 ]

\* runBacktest up to its loop: every local is declared and initialized here;
\* prev, the locals of the run before, is not read
runStart(prev, params, series) ==
    [ invA |-> START_A, invB |-> START_B, center |-> series[1].mid,
      lastTradeAt |-> 0,
      nextDecisionAt |-> alignNextDecision(series[1].t, params.DECISION_EVERY_MS, 0),
      pos |-> closePos, trades |-> 0 ]

\* one iteration of the loop of runBacktest over the point pt
runPoint(st, pt, params) ==
    LET t == pt.t
        mid == pt.mid
        c1 == emaOf(params.BAND_ALPHA, st.center, mid)
        p1 == updateExtremes(st.pos, mid)
        action == bandAction(mid, c1)
        forced == forcedCloseOf(p1, mid, params.TRAIL_STOP_BPS, params.HARD_STOP_BPS)
        planned0 == IF forced # "NONE" THEN forced ELSE action
        cooled == backtestCooldown(planned0, t, st.lastTradeAt, params.BT_COOLDOWN_MS)
        planned == cycleFilter(p1, samesideHold(p1, cooled), forced, mid, TRUE)
        sizes == computeDynamicSizesFromInventory(st.invA, st.invB, AMOUNT_A_DEC, AMOUNT_B_DEC,
                                                  params.unitA = "lovelace",
                                                  params.RESERVE_ADA_DEC)
        size == IF planned = "SELL_A" THEN sizes.sizeA ELSE sizes.sizeB
        inv == IF planned = "SELL_A" THEN st.invA ELSE st.invB
        rawOut == fillRawOut(planned, size, mid)
        out == applyFeesOut(rawOut, POOL_FEE_BPS + EXTRA_AGG_FEE_BPS)
        kept == [ st EXCEPT !.center = c1, !.pos = p1 ]
    IN
    IF cadenceSkips(params.DECISION_EVERY_MS, t, st.nextDecisionAt) THEN kept
    ELSE IF planned = "HOLD" THEN kept
    ELSE IF size <= 0 \/ inv <= 0 THEN kept
    ELSE IF params.MIN_NOTIONAL_OUT > 0 /\ rawOut < params.MIN_NOTIONAL_OUT THEN kept
    ELSE [ invA |-> IF planned = "SELL_A" THEN st.invA - size ELSE st.invA + out,
           invB |-> IF planned = "SELL_A" THEN st.invB + out ELSE st.invB - size,
           center |-> c1,
           lastTradeAt |-> t,
           nextDecisionAt |-> alignNextDecision(t, params.DECISION_EVERY_MS, st.nextDecisionAt),
           pos |-> positionAfterFill(p1, planned, mid),
           trades |-> st.trades + 1 ]

\* the object runBacktest returns
runResult(st, series) ==
    [ endA |-> st.invA, endB |-> st.invB,
      endMarked |-> markedAda(st.invA, st.invB, series[Len(series)].mid),
      trades |-> st.trades ]

\* the loop of runBacktest from point i on
RECURSIVE runFrom(_, _, _, _)
runFrom(st, series, i, params) ==
    IF i > Len(series) THEN st
    ELSE runFrom(runPoint(st, series[i], params), series, i + 1, params)

SweepSetLocals(st) ==
    /\ invA' = st.invA
    /\ invB' = st.invB
    /\ center' = st.center
    /\ lastTradeAt' = st.lastTradeAt
    /\ nextDecisionAt' = st.nextDecisionAt
    /\ posMode' = st.pos.mode
    /\ entryMid' = st.pos.entry
    /\ peakMid' = st.pos.peak
    /\ troughMid' = st.pos.trough
    /\ nFills' = st.trades

SweepUntouched ==
    UNCHANGED << prog, coolingUntil, nBuilt, nSubmitted, lastSubmitAt, lastEvalAt, alive,
                 centerFile >>

\* main() calls runBacktest for the next combination
SweepStartRun ==
    /\ prog = "sweep"
    /\ tick.path \in {"init", "run_done"}
    /\ tick.runs + 1 \in SweepRuns
    /\ \E combo \in SweepCombos :
         /\ cfg' = combo
         /\ SweepSetLocals(runStart(RunLocals, combo, tick.series))
    /\ clock' = 1
    /\ tick' = [ tick EXCEPT !.path = "running", !.runs = tick.runs + 1 ]
    /\ SweepUntouched

SweepPoint ==
    /\ prog = "sweep"
    /\ tick.path = "running"
    /\ clock <= Len(tick.series)
    /\ SweepSetLocals(runPoint(RunLocals, tick.series[clock], cfg))
    /\ clock' = clock + 1
    /\ UNCHANGED << cfg, tick >>
    /\ SweepUntouched

\* runBacktest returns and main() appends the row of the combination
SweepEndRun ==
    /\ prog = "sweep"
    /\ tick.path = "running"
    /\ clock > Len(tick.series)
    /\ tick' = [ tick EXCEPT !.path = "run_done",
                             !.rows = @ \cup { << cfg, runResult(RunLocals, tick.series) >> } ]
    /\ UNCHANGED << cfg, clock, invA, invB, center, lastTradeAt, nextDecisionAt, posMode,
                    entryMid, peakMid, troughMid, nFills >>
    /\ SweepUntouched

InitSweep ==
    /\ prog = "sweep"
    /\ cfg = BacktestBase
    /\ posMode = "NONE"
    /\ entryMid = 0
    /\ peakMid = 0
    /\ troughMid = 0
    /\ lastTradeAt = 0
    /\ nextDecisionAt = 0
    /\ coolingUntil = 0
    /\ nBuilt = 0
    /\ nSubmitted = 0
    /\ lastSubmitAt = None
    /\ nFills = 0
    /\ lastEvalAt = None
    /\ alive = TRUE
    /\ clock = 0
    /\ center = NaN
    /\ centerFile = None
    /\ invA = 0
    /\ invB = 0
    /\ \E series \in SweepSeries :
         tick = [ path |-> "init", runs |-> 0, series |-> series, rows |-> {} ]

NextSweep == SweepStartRun \/ SweepPoint \/ SweepEndRun

SpecSweep == InitSweep /\ [][NextSweep]_vars

(***************************************************************************)
(* The sizing functions on their own: computeDynamicTradeSizes of the live *)
(* bot and computeDynamicSizesFromInventory of the backtests, applied once *)
(* to a pair of balances.  tick carries the balances and what was computed *)
(* from them.                                                              *)
(***************************************************************************)
SizingBalancesA == {0, 100, 500, 699, 700, 701, 2000, 10000}
SizingBalancesB == {0, 100000}
SizingReserves == {0, 500}
SizingFunctions == {"computeDynamicTradeSizes", "computeDynamicSizesFromInventory"}

ComputeSizes ==
    /\ prog = "sizing"
    /\ tick.path = "init"
    /\ LET isAda == cfg.unitA = "lovelace"
           live == tick.function = "computeDynamicTradeSizes"
           buf == IF live THEN feeBufAda ELSE FEE_BUF_ADA
           sizes == computeDynamicTradeSizes(tick.balA, tick.balB, cfg.unitA,
                                             cfg.RESERVE_ADA_DEC)
           sizesInv == computeDynamicSizesFromInventory(tick.balA, tick.balB, AMOUNT_A_DEC,
                                                        AMOUNT_B_DEC, isAda,
                                                        cfg.RESERVE_ADA_DEC)
       IN  tick' = [ tick EXCEPT !.path = "sized",
                                 !.maxSpendA = maxSpend(tick.balA, isAda,
                                                        cfg.RESERVE_ADA_DEC, buf),
                                 !.feeBuf = buf,
                                 !.sizeA = IF live THEN sizes.tradeA_num ELSE sizesInv.sizeA,
                                 !.sizeB = IF live THEN sizes.tradeB_num ELSE sizesInv.sizeB ]
    /\ UNCHANGED << prog, cfg, clock, center, posMode, entryMid, peakMid, troughMid,
                    lastTradeAt, nextDecisionAt, invA, invB, coolingUntil, nBuilt,
                    nSubmitted, lastSubmitAt, nFills, lastEvalAt, alive, centerFile >>

InitSizing ==
    /\ prog = "sizing"
    /\ \E unit \in {"lovelace", "token"}, reserve \in SizingReserves :
         cfg = [ BaseConfig EXCEPT !.unitA = unit, !.RESERVE_ADA_DEC = reserve ]
    /\ posMode = "NONE"
    /\ entryMid = 0
    /\ peakMid = 0
    /\ troughMid = 0
    /\ lastTradeAt = 0
    /\ nextDecisionAt = 0
    /\ coolingUntil = 0
    /\ nBuilt = 0
    /\ nSubmitted = 0
    /\ lastSubmitAt = None
    /\ nFills = 0
    /\ lastEvalAt = None
    /\ alive = TRUE
    /\ clock = 0
    /\ center = NaN
    /\ centerFile = None
    /\ invA = 0
    /\ invB = 0
    /\ \E f \in SizingFunctions, balA \in SizingBalancesA, balB \in SizingBalancesB :
         tick = [ path |-> "init", function |-> f, balA |-> balA, balB |-> balB,
                  maxSpendA |-> 0, feeBuf |-> 0, sizeA |-> 0, sizeB |-> 0 ]

NextSizing == ComputeSizes

SpecSizing == InitSizing /\ [][NextSizing]_vars

(***************************************************************************)
(* The decision of one tick on its own: from the raw band signal to the    *)
(* planned action (step 4, the forced close, the single-position rule and  *)
(* the cycle filter of main() in bot-twoway.ts), for a position, a center  *)
(* and a mid.  Prices are in units of 0.001 here (10000 = 10.0), so that   *)
(* mids on either side of the edge threshold occur: with center 10.0 the   *)
(* band is [9.950, 10.050], and 10.053 is 3 bps, 10.056 is 6 bps over its  *)
(* upper bound.  The position was entered at any earlier price.            *)
(***************************************************************************)
DecisionCenters == {10000, 10003}
DecisionMids == {9944, 9947, 9950, 10000, 10050, 10053, 10056}
DecisionPositions ==
    { closePos, openPos("LONG_B", 10200), openPos("LONG_A", 9800),
      openPos("LONG_B", 9900), openPos("LONG_A", 10100),
      [ mode |-> "LONG_B", entry |-> 10000, peak |-> 10200, trough |-> 10000 ],
      [ mode |-> "LONG_A", entry |-> 10000, peak |-> 10000, trough |-> 9800 ] }

Decide ==
    /\ prog = "decision"
    /\ tick.path = "init"
    /\ LET mid == tick.mid
           p1 == updateExtremes(Pos, mid)
           d == twowayPlanned(p1, mid, center)
       IN  /\ tick' = [ tick EXCEPT !.path = "decided", !.forced = d.forced,
                                    !.action = d.action, !.planned = d.planned ]
           /\ peakMid' = p1.peak
           /\ troughMid' = p1.trough
    /\ UNCHANGED << prog, cfg, clock, center, posMode, entryMid, lastTradeAt,
                    nextDecisionAt, invA, invB, coolingUntil, nBuilt, nSubmitted,
                    lastSubmitAt, nFills, lastEvalAt, alive, centerFile >>

InitDecision ==
    /\ prog = "decision"
    /\ cfg \in Configs
    /\ \E p \in DecisionPositions :
         /\ posMode = p.mode
         /\ entryMid = p.entry
         /\ peakMid = p.peak
         /\ troughMid = p.trough
    /\ center \in DecisionCenters
    /\ centerFile = center
    /\ lastTradeAt = 0
    /\ nextDecisionAt = 0
    /\ coolingUntil = 0
    /\ nBuilt = 0
    /\ nSubmitted = 0
    /\ lastSubmitAt = None
    /\ nFills = 0
    /\ lastEvalAt = None
    /\ alive = TRUE
    /\ clock = 0
    /\ invA = 0
    /\ invB = 0
    /\ \E mid \in DecisionMids : tick = [ NoTick EXCEPT !.mid = mid ]

NextDecision == Decide

SpecDecision == InitDecision /\ [][NextDecision]_vars

(***************************************************************************)
(* The cadence bot: runBot() with candles and a decision cadence.  The     *)
(* candle, lastClosedClose and band of the loop are carried in tick        *)
(* (candle NoCandle and lastClosedClose, band NaN while they are null),    *)
(* next to what the last iteration did: the candles it closed, the price   *)
(* it decided on and the path it took.                                     *)
(***************************************************************************)
\* sleep(5000) in the catch block, against POLL_MS of 1 or 2
ERR_SLEEP_MS == 3

NoCandle == [ start |-> None, end |-> None, o |-> 0, h |-> 0, l |-> 0, c |-> 0 ]

\* { start, end: start + candleMs, o: price, h: price, l: price, c: price }
newCandle(start, price, candleMs) ==
    [ start |-> start, end |-> start + candleMs,
      o |-> price, h |-> price, l |-> price, c |-> price ]

\* "close and roll forward if elapsed": the candles closed, oldest first, and
\* the candle left open
RECURSIVE rollForward(_, _, _, _, _)
rollForward(cur, now, price, candleMs, closed) ==
    IF now >= cur.end
    THEN rollForward(newCandle(cur.end, price, candleMs), now, price, candleMs,
                     Append(closed, cur))
    ELSE [ cur |-> cur, closed |-> closed ]

\* faulty variant: at most one candle is closed per call
rollCandleOnce(cur, now, price, candleMs) ==
    IF cur = NoCandle
    THEN [ cur |-> newCandle((now \div candleMs) * candleMs, price, candleMs),
           closed |-> << >> ]
    ELSE LET r == IF now >= cur.end
                  THEN [ cur |-> newCandle(cur.end, price, candleMs), closed |-> << cur >> ]
                  ELSE [ cur |-> cur, closed |-> << >> ]
         IN  [ cur |-> [ r.cur EXCEPT !.h = Max(@, price), !.l = Min(@, price),
                                      !.c = price ],
               closed |-> r.closed ]

\* rollCandle: the candle returned and the candles handed to onClose, in the
\* order of the calls
rollCandle(cur, now, price, candleMs) ==
    IF cur = NoCandle
    THEN [ cur |-> newCandle((now \div candleMs) * candleMs, price, candleMs),
           closed |-> << >> ]
    ELSE LET r == rollForward(cur, now, price, candleMs, << >>)
         IN  [ cur |-> [ r.cur EXCEPT !.h = Max(@, price), !.l = Min(@, price),
                                      !.c = price ],
               closed |-> r.closed ]

\* the onClose callback of runBot, once per closed candle: EMA of the close
RECURSIVE onCloseAll(_, _)
onCloseAll(c, closed) ==
    IF closed = << >> THEN c
    ELSE onCloseAll(nextEma(c, Head(closed).c), Tail(closed))

\* faulty variant: the EMA follows the mid of every tick in candle mode too
candleCenterEveryTick(c, closed, mid, candleMs) == nextEma(c, mid)

\* "Candle maintenance": the center after the tick
candleCenter(c, closed, mid, candleMs) ==
    IF candleMs > 0 THEN onCloseAll(c, closed) ELSE nextEma(c, mid)

alignForward(t, step) == t + step

\* candleMs = CANDLE_MS || decisionEvery
candleMsOf(c) ==
    IF c.CANDLE_MS > 0 THEN c.CANDLE_MS
    ELSE IF c.DECISION_EVERY_MS > 0 THEN c.DECISION_EVERY_MS ELSE 0

CandleConfigs ==
    { [ CANDLE_MS |-> cm ] @@ [ BotBase EXCEPT !.DECISION_EVERY_MS = every, !.DRY_RUN = dry ] :
        cm \in {0, 1, 2}, every \in {0, 2}, dry \in BOOLEAN }

CandleNoTick ==
    [ path |-> "init", now |-> None, mid |-> 0, price |-> None, planned |-> "HOLD", amountIn |-> 0,
      fee |-> 0, candle |-> NoCandle, lastClosedClose |-> None, band |-> NaN,
      closed |-> << >> ]

CandleEnd(t, c, file, cu, nda, ck, nb, ns, lsa, nf, lea) ==
    /\ tick' = t
    /\ center' = c
    /\ centerFile' = file
    /\ coolingUntil' = cu
    /\ nextDecisionAt' = nda
    /\ clock' = ck
    /\ nBuilt' = nb
    /\ nSubmitted' = ns
    /\ lastSubmitAt' = lsa
    /\ nFills' = nf
    /\ lastEvalAt' = lea
    /\ UNCHANGED << prog, cfg, posMode, entryMid, peakMid, troughMid, lastTradeAt,
                    invA, invB, alive >>

\* a tick that ends before simulateOrExecute
CandleNoTrade(t, c, file, nda, ck, lea) ==
    CandleEnd(t, c, file, coolingUntil, nda, ck, nBuilt, nSubmitted, lastSubmitAt, nFills, lea)

\* simulateOrExecute, appendFillCsv and coolingUntil = now + COOLDOWN_MS; a
\* throw ends the tick in the catch block and its sleep(5000)
CandleExecute(now, dt, c1, file1, nda1, t1) ==
    \E lat \in Latency, fee \in ReFees, ex \in BotOutcomes :
      LET ts == now + lat
          t2 == [ t1 EXCEPT !.fee = fee ]
      IN
      IF ex = "quote_failed"
      THEN CandleNoTrade([ t1 EXCEPT !.path = "err_quote" ], c1, file1, nda1,
                         ts + ERR_SLEEP_MS, now)
      ELSE IF estimateThrows(fee)
      THEN CandleNoTrade([ t2 EXCEPT !.path = "err_fee" ], c1, file1, nda1,
                         ts + ERR_SLEEP_MS, now)
      ELSE IF simulateOnly(cfg)
      THEN CandleEnd([ t2 EXCEPT !.path = "dry_run" ], c1, file1, now + COOLDOWN_MS, nda1,
                     ts + dt, nBuilt, nSubmitted, lastSubmitAt, nFills + 1, now)
      ELSE IF ex \in {"build_failed", "submit_failed"}
      THEN CandleEnd([ t2 EXCEPT !.path = "err_exec" ], c1, file1, coolingUntil, nda1,
                     ts + ERR_SLEEP_MS, nBuilt + 1, nSubmitted, lastSubmitAt, nFills, now)
      ELSE IF ex = "no_tx_id"
      THEN CandleEnd([ t2 EXCEPT !.path = "err_post" ], c1, file1, coolingUntil, nda1,
                     ts + ERR_SLEEP_MS, nBuilt + 1, nSubmitted + 1, ts, nFills, now)
      ELSE CandleEnd([ t2 EXCEPT !.path = "traded" ], c1, file1, now + COOLDOWN_MS, nda1,
                     ts + dt, nBuilt + 1, nSubmitted + 1, ts, nFills + 1, now)

CandleWallets == { <<0, 0>>, <<10000, 100000>> }

\* one iteration of the while(true) loop
CandleBotTick ==
    /\ prog = "candle_bot"
    /\ clock <= MaxTime
    /\ \E mid \in Mids \cup {NaN}, dt \in PollDelay, w \in CandleWallets :
         LET now == clock
             candleMs == candleMsOf(cfg)
             every == cfg.DECISION_EVERY_MS
             r == IF candleMs > 0 THEN rollCandle(tick.candle, now, mid, candleMs)
                  ELSE [ cur |-> tick.candle, closed |-> << >> ]
             c1 == candleCenter(center, r.closed, mid, candleMs)
             lcc == IF r.closed # << >> THEN r.closed[Len(r.closed)].c
                    ELSE tick.lastClosedClose
             useCenter == IF c1 = NaN THEN mid ELSE c1
             band1 == persistBand(tick.band, useCenter)
             \* saveCenter in onClose or in the else branch, then in the
             \* "persist on first center or material move" step
             file1 == IF band1 # tick.band THEN useCenter
                      ELSE IF candleMs = 0 \/ r.closed # << >> THEN c1
                      ELSE centerFile
             nda1 == IF every > 0 THEN alignForward(nextDecisionAt, every)
                     ELSE nextDecisionAt
             price == IF candleMs > 0 THEN lcc ELSE mid
             sig == shouldTrade(price, useCenter, EDGE_BPS)
             adaBal == IF ~cfg.sender THEN 0
                       ELSE IF cfg.unitA = "lovelace" THEN w[1]
                       ELSE IF cfg.unitB = "lovelace" THEN w[2] ELSE 0
             aBal == IF cfg.sender THEN w[1] ELSE Infinity
             bBal == IF cfg.sender THEN w[2] ELSE Infinity
             sizedA == sizeWithCaps("BUY_B", aBal, bBal, AMOUNT_A_DEC)
             inA == IF cfg.unitA = "lovelace"
                    THEN applyAdaReserve(sizedA, adaBal, cfg.RESERVE_ADA_DEC) ELSE sizedA
             inB == sizeWithCaps("SELL_B", aBal, bBal, AMOUNT_B_DEC)
             side == IF sig.buy THEN "BUY_B" ELSE "SELL_B"
             amt == IF sig.buy THEN inA ELSE inB
             t0 == [ CandleNoTick EXCEPT !.now = now, !.mid = mid, !.candle = r.cur,
                                         !.lastClosedClose = lcc, !.band = band1,
                                         !.closed = r.closed ]
             t1 == [ t0 EXCEPT !.price = price, !.planned = side, !.amountIn = amt ]
         IN
         IF mid = NaN
         THEN CandleNoTrade([ CandleNoTick EXCEPT !.path = "err_mid", !.now = now,
                                !.candle = tick.candle,
                                !.lastClosedClose = tick.lastClosedClose,
                                !.band = tick.band ],
                            center, centerFile, nextDecisionAt, now + ERR_SLEEP_MS, lastEvalAt)
         ELSE IF now < coolingUntil
         THEN CandleNoTrade([ t0 EXCEPT !.path = "cooldown" ], c1, file1, nextDecisionAt,
                            now + dt, lastEvalAt)
         ELSE IF ~(every = 0 \/ now >= nextDecisionAt)
         THEN CandleNoTrade([ t0 EXCEPT !.path = "cadence_skip" ], c1, file1, nextDecisionAt,
                            now + dt, lastEvalAt)
         ELSE IF candleMs > 0 /\ price = None
         THEN CandleNoTrade([ t0 EXCEPT !.path = "no_candle" ], c1, file1, nda1,
                            now + dt, lastEvalAt)
         ELSE IF ~sig.buy /\ ~sig.sell
         THEN CandleNoTrade([ t0 EXCEPT !.path = "hold", !.price = price ], c1, file1, nda1,
                            now + dt, now)
         ELSE IF ~(passesMinTrade(side, amt) /\ amt > 0)
         THEN CandleNoTrade([ t1 EXCEPT !.path = "no_size" ], c1, file1, nda1, now + dt, now)
         ELSE CandleExecute(now, dt, c1, file1, nda1, t1)

\* runBot() up to the loop
InitCandle ==
    /\ prog = "candle_bot"
    /\ cfg \in CandleConfigs
    /\ posMode = "NONE"
    /\ entryMid = 0
    /\ peakMid = 0
    /\ troughMid = 0
    /\ lastTradeAt = 0
    /\ coolingUntil = 0
    /\ nBuilt = 0
    /\ nSubmitted = 0
    /\ lastSubmitAt = None
    /\ nFills = 0
    /\ lastEvalAt = None
    /\ alive = TRUE
    /\ clock \in StartTimes
    /\ nextDecisionAt = (IF cfg.DECISION_EVERY_MS > 0
                         THEN alignForward(clock, cfg.DECISION_EVERY_MS) ELSE 0)
    /\ centerFile \in {NaN, 100}
    /\ center = centerFile
    /\ tick = [ CandleNoTick EXCEPT !.band = centerFile ]
    /\ invA = 0
    /\ invB = 0

NextCandle == CandleBotTick

SpecCandle == InitCandle /\ [][NextCandle]_vars

(***************************************************************************)
(* Properties.                                                             *)
(***************************************************************************)
submittedNow == nSubmitted' > nSubmitted

C2_SinglePosition ==
    [][ /\ (submittedNow =>
              ~ \/ (posMode = "LONG_B" /\ tick'.planned = "SELL_A")
                \/ (posMode = "LONG_A" /\ tick'.planned = "SELL_B"))
        /\ (posMode # "NONE" /\ posMode' = posMode => entryMid' = entryMid)
        /\ (posMode # "NONE" /\ posMode' # posMode =>
              /\ tick'.path = "traded"
              /\ tick'.planned = (IF posMode = "LONG_B" THEN "SELL_B" ELSE "SELL_A")) ]_vars

C2_Witness ==
    /\ posMode = "LONG_B"
    /\ tick.action = "SELL_A"
    /\ tick.forced = "NONE"
    /\ tick.planned = "HOLD"

\* C3: in live mode, after a trade is submitted at time T no further trade is
\* submitted before T + COOLDOWN_MS.
C3_CooldownBetweenSubmissions ==
    [][ (~cfg.DRY_RUN /\ submittedNow /\ lastSubmitAt # None) =>
          lastSubmitAt' >= lastSubmitAt + COOLDOWN_MS ]_vars

soldIsAda ==
    \/ (tick.planned = "SELL_A" /\ cfg.unitA = "lovelace")
    \/ (tick.planned = "SELL_B" /\ cfg.unitB = "lovelace")

\* C4: whenever the asset sold is ADA, no executed trade leaves the ADA
\* balance below RESERVE_ADA_DEC.
C4_ReserveNeverTraded ==
    (tick.path = "traded" /\ soldIsAda) =>
      tick.balIn - tick.amountIn >= cfg.RESERVE_ADA_DEC

\* C5: the amount of an executed trade is never negative and exceeds neither
\* the owned balance of the asset sold nor the fixed cap of its side.
C5_SizeWithinBalanceAndCap ==
    tick.path = "traded" =>
      /\ 0 <= tick.amountIn
      /\ tick.amountIn <= tick.balIn
      /\ tick.amountIn <= (IF tick.planned = "SELL_A" THEN AMOUNT_A_DEC ELSE AMOUNT_B_DEC)

\* C6: a trade is executed only with an amount > 0 and >= the minimum-trade
\* floor of its side.
C6_TradeAtLeastFloor ==
    tick.path = "traded" =>
      /\ tick.amountIn > 0
      /\ tick.amountIn >= (IF tick.planned = "SELL_A" THEN MIN_TRADE_A_DEC
                           ELSE MIN_TRADE_B_DEC)

\* C7: with DRY_RUN no transaction is ever built, signed or submitted.
C7_DryRunSendsNothing ==
    cfg.DRY_RUN => nBuilt = 0 /\ nSubmitted = 0

C7_Witness ==
    /\ cfg.DRY_RUN
    /\ tick.path = "dry_run"
    /\ tick.planned # "HOLD"

tradeEffectsUnchanged ==
    /\ nBuilt' = nBuilt
    /\ nSubmitted' = nSubmitted
    /\ nFills' = nFills
    /\ posMode' = posMode
    /\ entryMid' = entryMid
    /\ lastTradeAt' = lastTradeAt
    /\ coolingUntil' = coolingUntil

\* C8 (as claimed): a quoted fee above the cap is rejected before anything
\* is mutated: nothing built or submitted, no fill, position state (mode,
\* entry, peak, trough) and cooldown clock unchanged.
C8_FeeRejectionMutatesNothing ==
    [][ tick'.fee > FEE_CAP_PCT =>
          /\ tradeEffectsUnchanged
          /\ peakMid' = peakMid
          /\ troughMid' = troughMid ]_vars

\* C8 (amended): a quoted fee above the cap is rejected with nothing built or
\* submitted, no fill, and mode, entry price and cooldown clock unchanged;
\* peak and trough are either unchanged or carry this tick's mid, which the
\* tick applies before it asks for the quote of the dynamic amount.
C8_FeeRejectionLeavesTradeState ==
    [][ tick'.fee > FEE_CAP_PCT =>
          /\ tradeEffectsUnchanged
          /\ \/ (peakMid' = peakMid /\ troughMid' = troughMid)
             \/ /\ tick'.mid > 0
                /\ peakMid' = updateExtremes(Pos, tick'.mid).peak
                /\ troughMid' = updateExtremes(Pos, tick'.mid).trough ]_vars

C8_Witness ==
    /\ tick.fee > FEE_CAP_PCT
    /\ tick.path = "err_fee"
    /\ tick.planned # "HOLD"
    /\ posMode # "NONE"

\* C9: with MIN_NOTIONAL_OUT > 0 no trade is sent whose quoted minimum output,
\* for the amount actually traded, is below MIN_NOTIONAL_OUT.
C9_NotionalOfTradedAmount ==
    (cfg.MIN_NOTIONAL_OUT > 0 /\ tick.path = "traded") =>
      tick.minOut >= cfg.MIN_NOTIONAL_OUT

\* C10: with a cadence D > 0 at most the first tick of a D-sized bucket is
\* evaluated: a tick that passes the cadence gate lies in another bucket
\* than the previous tick that passed it.
C10_OneEvaluationPerBucket ==
    [][ ( /\ cfg.DECISION_EVERY_MS > 0
          /\ lastEvalAt # None
          /\ lastEvalAt' # lastEvalAt )
        => (lastEvalAt' \div cfg.DECISION_EVERY_MS) # (lastEvalAt \div cfg.DECISION_EVERY_MS) ]_vars


\* the side whose fill closes a position of the given mode
closingSide(mode) == IF mode = "LONG_B" THEN "SELL_B" ELSE "SELL_A"

closedNow ==
    /\ posMode # "NONE"
    /\ tick'.path = "traded"
    /\ tick'.planned = closingSide(posMode)

\* C11 (as claimed): when an opposing-side trade closes the open position the
\* position is cleared (mode NONE, entry, peak and trough reset) and is still
\* NONE at the end of that tick.
C11_CloseLeavesNone ==
    [][ closedNow =>
          /\ posMode' = "NONE"
          /\ entryMid' = 0
          /\ peakMid' = 0
          /\ troughMid' = 0 ]_vars

\* C11 (amended): the trade that closes the open position opens the opposite
\* position in the same tick: at the end of the tick the mode is the opposite
\* one and entry, peak and trough are that tick's mid.
C11_CloseOpensOpposite ==
    [][ closedNow =>
          /\ posMode' = (IF posMode = "LONG_A" THEN "LONG_B" ELSE "LONG_A")
          /\ entryMid' = tick'.mid
          /\ peakMid' = tick'.mid
          /\ troughMid' = tick'.mid ]_vars

C11_Witness ==
    /\ tick.path = "traded"
    /\ tick.forced = "SELL_A"
    /\ posMode = "LONG_B"
    /\ entryMid = tick.mid

\* C12: with the cycle profit filter enabled, a non-forced trade that closes
\* the open position is planned only when favorableMoveBps(mid) >=
\* MIN_CYCLE_PNL_BPS + EST_CYCLE_FEES_BPS; when the band signal is the closing
\* side and the move is smaller the tick is a HOLD; a forced close stays
\* planned whatever the move.
C12_CycleFilter ==
    [][ (cfg.USE_CYCLE_FILTER /\ posMode # "NONE" /\ tick'.path \notin {"err_quote", "cadence_skip"}) =>
          /\ (tick'.forced = "NONE" /\ tick'.planned = closingSide(posMode) =>
                favorableMoveBps(Pos, tick'.mid) >= MIN_CYCLE_PNL_BPS + EST_CYCLE_FEES_BPS)
          /\ (/\ tick'.forced = "NONE"
              /\ tick'.action = closingSide(posMode)
              /\ favorableMoveBps(Pos, tick'.mid) < MIN_CYCLE_PNL_BPS + EST_CYCLE_FEES_BPS
              => tick'.planned = "HOLD" /\ ~submittedNow)
          /\ (tick'.forced # "NONE" => tick'.planned = tick'.forced) ]_vars

C12_Witness ==
    /\ cfg.USE_CYCLE_FILTER
    /\ posMode # "NONE"
    /\ tick.forced = "NONE"
    /\ tick.action = closingSide(posMode)
    /\ tick.planned = "HOLD"
    /\ tick.path = "hold"


\* C13: an error raised inside a tick never ends the main loop: the process
\* stays alive, and ticks keep being started: from any clock reading within
\* the horizon the loop runs on until the clock has passed the horizon.
C13_LoopSurvivesErrors ==
    /\ [](alive)
    /\ (clock <= MaxTime) ~> (clock > MaxTime)

C13_Witness ==
    /\ tickThrows(tick.path)
    /\ alive
    /\ nSubmitted > 0


\* C14: a transaction is submitted only in a tick that sized the trade from
\* balances returned for a known sender address; without a sender address the
\* balance counts as unlimited and nothing is built or submitted; a failed
\* balance read gives zero balances, never the unlimited one, and no trade.
C14_UnlimitedBalanceNeverLive ==
    [][ /\ (submittedNow =>
              cfg.sender /\ tick'.wallet = "ok" /\ tick'.balIn < Infinity)
        /\ (tick'.wallet = "unlimited" =>
              ~cfg.sender /\ nBuilt' = nBuilt /\ ~submittedNow)
        /\ (tick'.wallet = "failed" =>
              tick'.balIn = 0 /\ nBuilt' = nBuilt /\ ~submittedNow) ]_vars

C14_Witness ==
    /\ ~cfg.sender
    /\ ~cfg.DRY_RUN
    /\ tick.wallet = "unlimited"
    /\ tick.balIn = Infinity
    /\ tick.path = "dry_run"


\* C15: the fill log is append-only with one record per executed trade: a
\* tick appends a record if and only if it submitted a trade, it appends at
\* most one, and the log never shrinks.
C15_OneFillPerExecutedTrade ==
    [][ /\ nFills' >= nFills
        /\ nFills' <= nFills + 1
        /\ (nFills' = nFills + 1 <=> submittedNow) ]_vars


\* C16: a restarted process resumes from the persisted center: when the
\* center file holds a center, the process starts with it and the first EMA
\* update after the restart starts from exactly that value.
C16_RestartResumesPersistedCenter ==
    [][ /\ (~alive /\ alive' /\ centerFile # None => center' = centerFile)
        /\ (tick.path = "restart" /\ alive' /\ centerFile # None /\ tick'.mid > 0 =>
              center' = emaStep(centerFile, tick'.mid)) ]_vars

\* C17: on an interrupt the center file holds, when the process has exited,
\* the latest center computed (the seed of the first tick included).
C17_InterruptSavesLatestCenter ==
    [][ (alive /\ ~alive' /\ center' # NaN) => centerFile' = center' ]_vars

C17_Witness ==
    /\ ~alive
    /\ tick.path = "interrupted"
    /\ centerFile = center
    /\ center = tick.mid
    /\ cfg.BAND_CENTER = 0


\* C18: an EMA alpha outside [0,1] is fatal at start-up: with such an alpha
\* no tick ever runs and the center is never updated.
C18_BadAlphaIsFatal ==
    (cfg.BAND_ALPHA < 0 \/ cfg.BAND_ALPHA > AlphaDen) =>
      /\ tick.path \in {"init", "started", "config_error"}
      /\ center = centerFile


C20_EdgeMonotoneAnyBand ==
    tick.path = "evaluated" =>
      /\ (tick.s1 # "HOLD" /\ tick.e2 <= tick.e1 => tick.s2 = tick.s1)
      /\ (tick.s1 = "HOLD" /\ tick.e2 >= tick.e1 => tick.s2 = "HOLD")

\* C20 (amended): for any mid, center and bandBps a trigger at edge e is a
\* trigger at every e' <= e and a HOLD at e is a HOLD at every e' >= e; with
\* bandBps >= 0 the trigger at e' is the same signal as at e.
C20_EdgeMonotone ==
    tick.path = "evaluated" =>
      /\ (tick.s1 # "HOLD" /\ tick.e2 <= tick.e1 => tick.s2 # "HOLD")
      /\ (tick.s1 # "HOLD" /\ tick.e2 <= tick.e1 /\ tick.bandBps >= 0 => tick.s2 = tick.s1)
      /\ (tick.s1 = "HOLD" /\ tick.e2 >= tick.e1 => tick.s2 = "HOLD")

C20_Witness ==
    /\ tick.path = "evaluated"
    /\ tick.bandBps > 0
    /\ tick.e2 < tick.e1
    /\ tick.s1 = "HOLD"
    /\ tick.s2 = "SELL_B"

\* C21: the first update of an uninitialized center gives exactly the mid of
\* the tick, and a price P fed again on the following tick moves the center
\* no farther from P and does not leave it standing at a value away from P
\* (farther than one unit of the resolution).
C21_ConstantPriceDrivesCenter ==
    [][ LET P == tick'.mid
            dist(c) == IF c >= P THEN c - P ELSE P - c
        IN  /\ (center = NaN => tick'.center = P)
            /\ (tick.path # "init" /\ tick.mid = P =>
                  /\ dist(tick'.center) <= dist(tick.center)
                  /\ (tick'.center = tick.center => dist(tick.center) <= 1)) ]_vars

\* the same for the center of bot-twoway.ts alone
C21_TwowayCenterConverges ==
    [][ prog = "twoway_center" =>
          LET P == tick'.mid
              dist(c) == IF c >= P THEN c - P ELSE P - c
          IN  /\ (center = NaN => tick'.center = P)
              /\ (tick.path # "init" /\ tick.mid = P =>
                    /\ dist(tick'.center) <= dist(tick.center)
                    /\ (tick'.center = tick.center => dist(tick.center) <= 1)) ]_vars

\* C22: a fill with zero total fee is equity-neutral at its own mid: the
\* marked value invA + invB / mid is the same after the fill as before it,
\* and the PnL recorded for the fill is 0.
C22_ZeroFeeFillIsNeutral ==
    (prog = "fill" /\ tick.path = "traded" /\ tick.feeBps = 0) =>
        /\ markedAda(invA, invB, tick.mid) = tick.before
        /\ tick.pnlAda = 0

\* the scenario of the claim's example, scaled down to the inventories here:
\* base 100.00, quote 0, 10.00 base sold at mid 2.0 gives 20.00 quote
C22_Witness ==
    /\ prog = "fill"
    /\ tick.path = "traded"
    /\ tick.feeBps = 0
    /\ tick.planned = "SELL_A"
    /\ tick.mid = 20
    /\ tick.amountIn = 1000
    /\ tick.before = 10000
    /\ invA = 9000
    /\ invB = 2000
    /\ markedAda(invA, invB, tick.mid) = 10000

C24_UpdatesBeforeGates ==
    [][ (prog = "twoway" /\ tick'.path # "err_quote") =>
          /\ center' = (IF center = NaN THEN tick'.mid
                        ELSE emaOf(cfg.BAND_ALPHA, center, tick'.mid))
          /\ (posMode # "NONE" /\ tick'.path # "traded" =>
                /\ posMode' = posMode
                /\ entryMid' = entryMid
                /\ peakMid' = Max(peakMid, tick'.mid)
                /\ troughMid' = Min(troughMid, tick'.mid)) ]_vars

\* a tick skipped by the cadence gate has just raised the peak or lowered
\* the trough of the open position to its mid
C24_Witness ==
    /\ prog = "twoway"
    /\ posMode # "NONE"
    /\ tick.path = "cadence_skip"
    /\ \/ (peakMid = tick.mid /\ peakMid > entryMid /\ troughMid = entryMid)
       \/ (troughMid = tick.mid /\ troughMid < entryMid /\ peakMid = entryMid)
    /\ center # entryMid

\* C25: when asset A is ADA and the reserve plus the fee buffer is at least
\* the ADA balance, the spendable amount computed for A is exactly 0; the
\* spendable amount is never negative.
C25_ReserveGuardGivesZero ==
    (prog = "sizing" /\ tick.path = "sized") =>
        /\ tick.maxSpendA >= 0
        /\ (cfg.unitA = "lovelace" /\ cfg.RESERVE_ADA_DEC + tick.feeBuf >= tick.balA =>
              tick.maxSpendA = 0)

\* the balance is below the reserve plus the buffer, and the reserve is set
C25_Witness ==
    /\ prog = "sizing"
    /\ tick.path = "sized"
    /\ cfg.unitA = "lovelace"
    /\ cfg.RESERVE_ADA_DEC > 0
    /\ tick.balA > 0
    /\ cfg.RESERVE_ADA_DEC + tick.feeBuf > tick.balA
    /\ tick.maxSpendA = 0

C26_WitnessHold ==
    /\ prog = "decision"
    /\ tick.path = "decided"
    /\ posMode # "NONE"
    /\ tick.forced # "NONE"
    /\ tick.action = "HOLD"
    /\ tick.planned = tick.forced

\* C27: a tick that starts before the next decision time of the cadence is
\* skipped before the stops are looked at: no stop is evaluated, nothing is
\* submitted or recorded and the position stays open as it was, also when the
\* mid of that tick breaches a trailing or hard stop.
C27_CadenceGateBeforeStops ==
    [][ LET nda == IF nextDecisionAt = 0
                   THEN alignNextDecision(clock, cfg.DECISION_EVERY_MS, nextDecisionAt)
                   ELSE nextDecisionAt
        IN  (prog = "twoway" /\ cfg.DECISION_EVERY_MS > 0 /\ clock < nda) =>
              /\ tick'.forced = "NONE"
              /\ tick'.planned = "HOLD"
              /\ ~submittedNow
              /\ nBuilt' = nBuilt
              /\ nFills' = nFills
              /\ lastTradeAt' = lastTradeAt
              /\ posMode' = posMode
              /\ entryMid' = entryMid ]_vars

\* a skipped tick whose mid breaches the hard stop of the open position
C27_Witness ==
    /\ prog = "twoway"
    /\ tick.path = "cadence_skip"
    /\ posMode # "NONE"
    /\ cfg.HARD_STOP_BPS > 0
    /\ hardStopFromEntryBps(Pos, tick.mid) >= cfg.HARD_STOP_BPS
    /\ forcedCloseOf(Pos, tick.mid, cfg.TRAIL_STOP_BPS, cfg.HARD_STOP_BPS) # "NONE"

\* C28: a tick that submits a swap transaction records the fill, arms the
\* cooldown (the time of the last trade is the time of the submission) and
\* updates the position before it ends, also when a step after the
\* submission fails.
C28_SubmissionIsRecorded ==
    [][ (prog = "twoway" /\ submittedNow) =>
          /\ nFills' = nFills + 1
          /\ lastTradeAt' = lastSubmitAt'
          /\ posMode' = (IF tick'.planned = "SELL_A" THEN "LONG_B" ELSE "LONG_A")
          /\ entryMid' = tick'.mid ]_vars

\* C29: on every tick after the first the center of the tick is
\* alpha * mid + (1 - alpha) * c, with c the center computed by the tick
\* before, whether or not that center was persisted.
C29_CenterFollowsPreviousTick ==
    [][ tick.path # "init" =>
          tick'.center = emaOf(cfg.BAND_ALPHA, tick.center, tick'.mid) ]_vars

\* the same for the center of bot-twoway.ts alone
C29_TwowayCenterFollowsPreviousTick ==
    [][ (prog = "twoway_center" /\ tick.path # "init") =>
          /\ tick'.center = emaOf(cfg.BAND_ALPHA, tick.center, tick'.mid)
          /\ center' = tick'.center ]_vars

\* the mid m is over the upper bound (side SELL_A) or under the lower bound
\* (side SELL_B) of the band around c by at least EDGE_BPS
outsideBand(side, m, c) ==
    LET b == bounds(c, BAND_BPS) IN
    IF side = "SELL_A"
    THEN m * 10000 > b.upper /\ bpsOver(m * 10000, b.upper) >= EDGE_BPS
    ELSE m * 10000 < b.lower /\ bpsOver(b.lower, m * 10000) >= EDGE_BPS

\* C30: a swap that is not a forced close is built or submitted only on a
\* tick whose mid is outside the band of that tick by at least EDGE_BPS on
\* the side of the trade: over the upper bound for SELL_A, under the lower
\* bound for SELL_B; a mid inside [lower, upper] gives no such trade.
C30_TradeOnlyOutsideBand ==
    [][ (prog = "twoway" /\ (submittedNow \/ nBuilt' > nBuilt \/ nFills' > nFills)
         /\ tick'.forced = "NONE") =>
          /\ tick'.planned \in {"SELL_A", "SELL_B"}
          /\ outsideBand(tick'.planned, tick'.mid, center') ]_vars

\* a fill that is not a forced close, its mid over the upper bound
C30_Witness ==
    /\ prog = "twoway"
    /\ tick.path = "traded"
    /\ tick.forced = "NONE"
    /\ tick.planned = "SELL_A"
    /\ outsideBand("SELL_A", tick.mid, center)

\* the same at the decision, with mids on either side of the edge threshold:
\* an action planned without a forced close has its mid outside the band by
\* at least EDGE_BPS on its side
C30_PlannedOnlyOutsideBand ==
    (prog = "decision" /\ tick.path = "decided" /\ tick.forced = "NONE"
     /\ tick.planned # "HOLD") =>
        outsideBand(tick.planned, tick.mid, center)

\* a mid 3 bps over the upper bound is held, and 6 bps over it is planned
C30_WitnessEdge ==
    /\ prog = "decision"
    /\ tick.path = "decided"
    /\ posMode = "NONE"
    /\ center = 10000
    /\ \/ (tick.mid = 10053 /\ tick.planned = "HOLD")
       \/ (tick.mid = 10056 /\ tick.planned = "SELL_A")

\* C31: a restart leaves no position (mode NONE, entry, peak and trough 0)
\* whatever was open before, the first tick after it evaluates no stop, and
\* the center the restarted process starts with is the one in the center file.
C31_RestartForgetsPositionKeepsCenter ==
    [][ /\ (~alive /\ alive' =>
              /\ posMode' = "NONE"
              /\ entryMid' = 0
              /\ peakMid' = 0
              /\ troughMid' = 0
              /\ (centerFile # None => center' = centerFile))
        /\ (tick.path = "restart" => tick'.forced = "NONE") ]_vars

\* the part of C31 about the position alone
C31_RestartForgetsPosition ==
    [][ /\ (~alive /\ alive' =>
              /\ posMode' = "NONE"
              /\ entryMid' = 0
              /\ peakMid' = 0
              /\ troughMid' = 0)
        /\ (tick.path = "restart" => tick'.forced = "NONE") ]_vars

\* the process was interrupted with a position open
C31_WitnessOpenAtInterrupt ==
    /\ ~alive
    /\ posMode # "NONE"
    /\ entryMid > 0

\* the position a filled trade of the given side opens
openedBy(side) == IF side = "SELL_A" THEN "LONG_B" ELSE "LONG_A"

\* C32: executed trades strictly alternate sides: a tick that submits a swap
\* right after a tick that submitted a swap does not sell the same side again.
C32_TradesAlternate ==
    [][ (tick.path \in {"traded", "err_post"} /\ submittedNow) =>
          tick'.planned # tick.planned ]_vars

\* the same in the position-tracking backtest: a simulated fill never sells
\* the side that opened the position held, and leaves the position of its side
C32_BacktestTradesAlternate ==
    [][ nFills' > nFills =>
          /\ posMode # openedBy(tick'.planned)
          /\ posMode' = openedBy(tick'.planned) ]_vars

\* two fills of different sides have happened in one backtest run
C32_BacktestWitness ==
    /\ prog = "backtest"
    /\ nFills >= 2
    /\ tick.path = "traded"
    /\ posMode = openedBy(tick.planned)

\* C33: with a cadence D > 0 a trade is executed neither in the bucket in
\* which the run started nor in the bucket of the trade before it: after a
\* trade at time T the next one is at (floor(T/D)+1)*D or later.
C33_OneTradePerBucket ==
    [][ (cfg.DECISION_EVERY_MS > 0 /\ submittedNow) =>
          /\ \A s \in StartTimes :
               lastSubmitAt' >= alignNextDecision(s, cfg.DECISION_EVERY_MS, 0)
          /\ (lastSubmitAt # None =>
                lastSubmitAt' >= alignNextDecision(lastSubmitAt, cfg.DECISION_EVERY_MS, 0)) ]_vars

\* the position memory is well formed
positionWellFormed ==
    IF posMode = "NONE"
    THEN entryMid = 0 /\ peakMid = 0 /\ troughMid = 0
    ELSE 0 < troughMid /\ troughMid <= entryMid /\ entryMid <= peakMid

\* C34: in every reachable state an open position has
\* 0 < troughMid <= entryMid <= peakMid and no position has all three 0;
\* entryMid changes only in a tick that opens a position, to that tick's mid.
C34_PositionWellFormed ==
    /\ []positionWellFormed
    /\ [][ entryMid' # entryMid =>
             /\ tick'.path = "traded"
             /\ posMode' = openedBy(tick'.planned)
             /\ entryMid' = tick'.mid ]_vars

\* an open position whose peak or trough has left the entry price
C34_Witness ==
    /\ posMode # "NONE"
    /\ (troughMid < entryMid \/ entryMid < peakMid)
    /\ tick.path # "traded"

\* C35 (as claimed): a tick that ends without a trade leaves the position
\* mode, the entry price, the last-trade time and the next-decision time
\* unchanged.
C35_NoTradeKeepsTradingState ==
    [][ ~submittedNow =>
          /\ posMode' = posMode
          /\ entryMid' = entryMid
          /\ lastTradeAt' = lastTradeAt
          /\ nextDecisionAt' = nextDecisionAt ]_vars

\* C35 (amended): a tick that ends without a trade leaves the position mode,
\* the entry price and the last-trade time unchanged, and the next-decision
\* time too, except that with a cadence D > 0 the first tick of the run sets
\* it from 0 to the start of the bucket after the run's start.
C35_NoTradeKeepsTradingStateButAlignment ==
    [][ ~submittedNow =>
          /\ posMode' = posMode
          /\ entryMid' = entryMid
          /\ lastTradeAt' = lastTradeAt
          /\ \/ nextDecisionAt' = nextDecisionAt
             \/ /\ cfg.DECISION_EVERY_MS > 0
                /\ nextDecisionAt = 0
                /\ nextDecisionAt' = alignNextDecision(clock, cfg.DECISION_EVERY_MS, 0) ]_vars

\* a tick has ended without a trade, a position is open and its peak or
\* trough was moved by a tick after the entry
C35_Witness ==
    /\ tick.path \in {"hold", "cadence_skip", "notional_hold", "cooldown", "no_size",
                      "reserve_guard", "err_quote", "err_balance", "err_fee", "err_exec"}
    /\ posMode # "NONE"
    /\ lastTradeAt > 0
    /\ (troughMid < entryMid \/ entryMid < peakMid)

\* C36: in dry-run mode of the two-way bot the trading state never changes:
\* after any sequence of ticks there is no position, lastTradeAt is 0 and no
\* fill is written, so no tick is held by the cooldown and no stop fires.
C36_DryRunKeepsTradingState ==
    (prog = "twoway" /\ cfg.DRY_RUN) =>
      /\ posMode = "NONE"
      /\ entryMid = 0
      /\ peakMid = 0
      /\ troughMid = 0
      /\ lastTradeAt = 0
      /\ nFills = 0
      /\ tick.forced = "NONE"
      /\ tick.path # "cooldown"

\* a dry-run tick went as far as the skipped swap, after an earlier tick of
\* the same run had evaluated a decision
C36_Witness ==
    /\ cfg.DRY_RUN
    /\ tick.path = "dry_run"
    /\ tick.planned # "HOLD"
    /\ lastEvalAt > 10

C38_CandleWellFormed ==
    (prog = "candle_bot" /\ tick.candle # NoCandle) =>
      LET k == tick.candle
          candleMs == candleMsOf(cfg)
      IN  /\ candleMs > 0
          /\ k.start % candleMs = 0
          /\ k.end = k.start + candleMs
          /\ (tick.path # "err_mid" => k.start <= tick.now /\ tick.now < k.end)
          /\ k.l <= k.o /\ k.o <= k.h
          /\ k.l <= k.c /\ k.c <= k.h

\* a candle opened by rolling forward that has seen more than one price
C38_Witness ==
    /\ prog = "candle_bot"
    /\ tick.candle # NoCandle
    /\ tick.lastClosedClose # None
    /\ tick.candle.l < tick.candle.h
    /\ tick.candle.c # tick.candle.o

\* the paths of a tick on which shouldTrade was evaluated
decisionEvaluated(path) ==
    path \in {"hold", "no_size", "err_quote", "err_fee", "dry_run", "err_exec",
              "err_post", "traded"}

\* C39: in candle mode a tick that got its price closes one candle for each
\* candle period that has ended since the open candle began, oldest first
\* and starting with the candle that was open, the
\* center is the EMA over the closes of the closed candles in that order and
\* is unchanged by a tick that closes none, and a decision is evaluated only
\* once a candle has closed, on the last close.
C39_CenterFollowsCandleCloses ==
    [][ (prog = "candle_bot" /\ candleMsOf(cfg) > 0) =>
          LET old == tick.candle
              closed == tick'.closed
          IN  /\ (old = NoCandle => closed = << >>)
              /\ (tick'.path = "err_mid" => closed = << >>)
              /\ (old # NoCandle /\ tick'.path # "err_mid" =>
                    Len(closed) = (tick'.now \div candleMsOf(cfg))
                                    - (old.start \div candleMsOf(cfg)))
              /\ \A i \in 1 .. Len(closed) :
                   closed[i].start = old.start + (i - 1) * candleMsOf(cfg)
              /\ (closed # << >> => closed[1] = old)
              /\ (closed = << >> => center' = center)
              /\ center' = onCloseAll(center, closed)
              /\ (decisionEvaluated(tick'.path) =>
                    /\ tick'.lastClosedClose # None
                    /\ tick'.price = tick'.lastClosedClose) ]_vars

\* one tick closed two candles or more and went on to a decision
C39_Witness ==
    /\ prog = "candle_bot"
    /\ Len(tick.closed) >= 2
    /\ decisionEvaluated(tick.path)
    /\ center # tick.mid

\* in candle mode a tick without a closed candle has been held
C39_WitnessNoCandle ==
    /\ prog = "candle_bot"
    /\ tick.path = "no_candle"

=============================================================================
